---- MODULE Spec2Model ----
(***************************************************************************)
(* Synchronised light/sound devices driven by one controller over a lossy  *)
(* half-duplex radio link.                                                 *)
(*                                                                         *)
(* The repository holds several firmware variants.  The controller part    *)
(* of this module models four of them, selected by txVariant:              *)
(*   "rfm95"  src/transmitter_rfm95.ino  (LoRa, binary packets, READY ack) *)
(*   "poll"   src/cleanup.sh             (LoRa, LoraMsg wrapper, "ACK")    *)
(*   "nrf24"  src/unnamed/part_002       (nRF24, hardware ack + READY poll)*)
(*   "text"   src/transmitter/transmitter.ino  (nRF24, ST2 text lines)     *)
(* The device part models three receivers, selected by rxVariant:          *)
(*   "nrf24"  src/Receiver.ino           (ack payload, explicit SYNC)      *)
(*   "rfm95"  src/receiver_rfm95.ino     (dedicated ack, self-contained)   *)
(*   "lora"   src/transmitter.ino:209-   (LoraMsg wrapper, explicit SYNC)  *)
(***************************************************************************)
EXTENDS Integers, Sequences, FiniteSets, TLC

VARIABLES
    \* ---- controller ----
    txVariant,   \* which controller firmware runs
    seqId,       \* uint16_t seqId
    txPc,        \* position of the controller: idle | sweep | batch | tx | wait
    cmdKind,     \* command being handled: none | DISCOVER | CHECK | SYNC | FLASH | START
    batch,       \* the entries of the START command being handled
    idx,         \* loop variable of the sweep (device number) or batch (entry number)
    call,        \* the running / last sendReliable call
    cmdsRun,     \* operator commands handled so far
    txNow,       \* micros() of the controller, a 32-bit counter
    masterStartTime,    \* the START handler's local (poll, nrf24, text: set once)
    earliestGreenTime,  \* the START handler's local (poll, nrf24, text)
    \* ---- controller: observation of the radio ----
    cmdSent,     \* targets whose packet went on the air during the current command
    cmdFailed,   \* number of sendReliable calls of the current command that returned false
    usedSeqs,    \* seq of every logical transmission, in order
    cmdPkts,     \* the START packets built during the current command, in order
    markers,     \* controller clock at each STARTTIMER line of the current command
    \* ---- device ----
    rxVariant,        \* which device firmware runs
    rxNow,            \* micros(), a 32-bit counter
    rxPc,             \* position in loop(): poll (receive) | tick (runScheduledSteps)
    actions,          \* Action actions[MAX_ACTIONS], the slots below totalSteps
    totalSteps,
    currentStep,
    scheduleVolume,
    lastSeq,          \* dedupe key (nrf24, lora)
    lastMasterStart,  \* dedupe key (nrf24, lora)
    timeOffset,       \* local micros() - masterMicros (nrf24, lora)
    leds,             \* the three LED outputs, TRUE = HIGH
    audio,            \* what the player was last told
    \* ---- device: observation and environment ----
    rxAck,            \* seq of the READY ack produced in this loop pass, -1 if none
    handled,          \* what the receive step of this loop pass handled
    rxFrame,          \* the bytes that receive step took in
    fresh,            \* the last addressed START that was not a repeat of its predecessor
    built,            \* the packet and base time the action list was last built from
    rxExec,           \* the action executed by the scheduler tick of this loop pass
    envSeq,           \* seq the controller gives its next START
    envLast,          \* the last START frame sent to this device (for retransmission)
    sent,             \* frames the controller sent to this device so far
    elapsed,          \* clock quanta elapsed so far
    \* ---- packet codec on its own ----
    codec,            \* a packet value, its bytes on the wire, and what they decode to
    \* ---- discovery controller (src/transmitter.ino:1-207, part_005) ----
    regVariant,       \* which discovery controller firmware runs
    regPc,            \* idle | window (inside performDiscovery's listening loop)
    discoveredIDs,    \* char discoveredIDs[MAX_DEVICES][..], the slots below deviceCount
    deviceCount,
    nextMsgId,        \* uint8_t nextMsgId
    regOps,           \* operator lines handled so far
    firstArrivals,    \* the distinct identifiers heard in this window, in order of first arrival
    lastReply,        \* the reply the window loop read last, and whether it was found
    regListening,     \* TRUE after radio.startListening(), FALSE after radio.stopListening()
    onCommandPipe,    \* the devices whose listeningToCommandPipe is true (Registered)
    regReset,         \* target of the last RESET line and the registry it found
    \* ---- discovery device (src/unnamed/part_008, part_007:1-176) ----
    nodeVariant,             \* which discovery device firmware runs
    listeningToCommandPipe,
    readingPipe,             \* the address of reading pipe 1: BCAST | CMDCH
    msgHistory,              \* char msgHistory[MSG_HISTORY_SIZE][3]
    historyIndex,
    nodeLeds,                \* the three LED outputs, TRUE = HIGH
    airMsgId,                \* id of the controller's last logical message
    airMsg,                  \* the last message delivered (for retransmission)
    nodeIn,                  \* what loop() made of the message it read last
    nodeHeard,               \* messages read so far
    airNth,                  \* how many transmissions of airMsg the device has read
    nodeFill,                \* messages of the opening run for another device read so far
    nodeRecorded             \* the ids handed to recordMsgId so far, in order

txVars == <<txVariant, seqId, txPc, cmdKind, batch, idx, call, cmdsRun,
            txNow, masterStartTime, earliestGreenTime,
            cmdSent, cmdFailed, usedSeqs, cmdPkts, markers>>

rxVars == <<rxVariant, rxNow, rxPc, actions, totalSteps, currentStep,
            scheduleVolume, lastSeq, lastMasterStart, timeOffset, leds, audio,
            rxAck, handled, rxFrame, fresh, built, rxExec, envSeq, envLast, sent, elapsed>>

codecVars == <<codec>>

regVars == <<regVariant, regPc, discoveredIDs, deviceCount, nextMsgId, regOps,
             firstArrivals, lastReply, regListening, onCommandPipe, regReset>>

nodeVars == <<nodeVariant, listeningToCommandPipe, readingPipe, msgHistory,
              historyIndex, nodeLeds, airMsgId, airMsg, nodeIn, nodeHeard,
              airNth, nodeFill, nodeRecorded>>

vars == <<txVars, rxVars, codecVars, regVars, nodeVars>>

\* everything but the controller's, the device's, the codec's, the discovery
\* controller's, the discovery device's variables
besidesTx == <<rxVars, codecVars, regVars, nodeVars>>
besidesRx == <<txVars, codecVars, regVars, nodeVars>>
besidesCodec == <<txVars, rxVars, regVars, nodeVars>>
besidesReg == <<txVars, rxVars, codecVars, nodeVars>>
besidesNode == <<txVars, rxVars, codecVars, regVars>>

\* ------------------------------------------------------------------ bounds
MaxCmds == 2
MaxSent == 2
MaxElapsed == 4
MaxRegOps == 2
MaxNodeMsgs == 3
MaxFill == 21
MaxTypedCs == 1500

\* ------------------------------------------------------- program constants
MSG_START_V1 == 161
MSG_DISCOVER_V1 == 162
MSG_BROADCAST_V1 == 163
MSG_READY_V1 == 177
NUM_SLAVES == 8
RETRY_COUNT_RFM95 == 3
RETRY_COUNT_POLL == 5

U16 == 256 * 256

\* ---------------------------------------------------------- wire encoding
Lo8(x) == x % 256
Hi8(x) == (x \div 256) % 256

\* A receive buffer is a zero-initialised struct: bytes the frame does not
\* cover read as 0.
ByteAt(f, i) == IF i <= Len(f) THEN f[i] ELSE 0
U16At(f, i) == ByteAt(f, i) + 256 * ByteAt(f, i + 1)

Truncate(f, n) == IF Len(f) <= n THEN f ELSE SubSeq(f, 1, n)

\* "ACK", "CHECK" as NUL-terminated byte strings
StrACK == <<65, 67, 75, 0>>
StrCHECK == <<67, 72, 69, 67, 75, 0>>

\* ReadyAckV1 { type, seq }
EncodeReadyAck(seq) == <<MSG_READY_V1, Lo8(seq), Hi8(seq)>>

\* LoraMsg { targetId, type, seq, payload[48] }; the zero padding after the
\* payload's terminator is left to ByteAt.
EncodeLoraMsg(targetId, type, seq, payload) ==
    <<targetId, type, Lo8(seq), Hi8(seq)>> \o payload

EncodeLoraAck(targetId, seq) == EncodeLoraMsg(targetId, 1, seq, StrACK)

\* strcmp(msg.payload, s) == 0 for a NUL-terminated s
PayloadIs(f, s) == \A i \in 1..Len(s) : ByteAt(f, 4 + i) = s[i]

\* ------------------------------------------------ 32-bit unsigned arithmetic
\* unsigned long is 32 bits wide.  A value is the pair <<high 16 bits, low 16
\* bits>>; sums and differences wrap modulo 2^32.
FromNat(n) == <<(n \div U16) % U16, n % U16>>

Add32(a, b) ==
    LET lo == a[2] + b[2]
        hi == a[1] + b[1] + (lo \div U16)
    IN  <<hi % U16, lo % U16>>

Sub32(a, b) ==
    LET lo == a[2] - b[2] + U16
        hi == a[1] - b[1] + U16 - (IF a[2] < b[2] THEN 1 ELSE 0)
    IN  <<hi % U16, lo % U16>>

\* (long)x < 0, (long)x > 0, (long)x >= 0
SLt0(x) == x[1] >= U16 \div 2
SGe0(x) == x[1] < U16 \div 2
SGt0(x) == SGe0(x) /\ x # <<0, 0>>

\* (unsigned long)ds * 100000UL: 100000 = 65536 + 2 * 17232
ds_to_us(ds) ==
    LET p == FromNat(ds * 17232)
    IN  Add32(<<ds % U16, 0>>, Add32(p, p))

\* (unsigned long)LEAD_T_MS[i] * 1000UL, LEAD_T_MS = {1000, 1000, 1000}
LEAD_T_MS == 1000
LeadUs == FromNat(LEAD_T_MS * 1000)

\* ------------------------------------------------------- StartPacketV1
\* packed struct { type, seq, targetId, currentClock, masterStart, volume,
\* steps, t_ds[4] }, 22 bytes, little-endian
START_LEN == 22

\* a big-endian layout of the same value
U32Bytes_BigEndian(x) == <<Hi8(x[1]), Lo8(x[1]), Hi8(x[2]), Lo8(x[2])>>

U32Bytes(x) == <<Lo8(x[2]), Hi8(x[2]), Lo8(x[1]), Hi8(x[1])>>
U32At(f, i) == <<U16At(f, i + 2), U16At(f, i)>>

EncodeStart(p) ==
    <<p.type, Lo8(p.seq), Hi8(p.seq), p.targetId>>
    \o U32Bytes(p.currentClock) \o U32Bytes(p.masterStart)
    \o <<p.volume, p.steps>>
    \o <<Lo8(p.t_ds[1]), Hi8(p.t_ds[1]), Lo8(p.t_ds[2]), Hi8(p.t_ds[2]),
         Lo8(p.t_ds[3]), Hi8(p.t_ds[3]), Lo8(p.t_ds[4]), Hi8(p.t_ds[4])>>

\* memcpy(&pkt, buf, sizeof(pkt))
DecodeStart(f) ==
    [type |-> ByteAt(f, 1),
     seq |-> U16At(f, 2),
     targetId |-> ByteAt(f, 4),
     currentClock |-> U32At(f, 5),
     masterStart |-> U32At(f, 9),
     volume |-> ByteAt(f, 13),
     steps |-> ByteAt(f, 14),
     t_ds |-> <<U16At(f, 15), U16At(f, 17), U16At(f, 19), U16At(f, 21)>>]

\* DiscoverPacketV1 { type, seq, targetId }
EncodeDiscover(seq, targetId) == <<MSG_DISCOVER_V1, Lo8(seq), Hi8(seq), targetId>>
DecodeDiscover(f) == [type |-> ByteAt(f, 1), seq |-> U16At(f, 2), targetId |-> ByteAt(f, 4)]

\* BroadcastPacketV1 { type, seq, command }
CMD_FLASH == 1
DISCOVER_LEN == 4
BROADCAST_LEN == 4
READY_LEN == 3
EncodeBroadcast(seq, command) == <<MSG_BROADCAST_V1, Lo8(seq), Hi8(seq), command>>
DecodeBroadcast(f) == [type |-> ByteAt(f, 1), seq |-> U16At(f, 2), command |-> ByteAt(f, 4)]

DecodeReadyAck(f) == [type |-> ByteAt(f, 1), seq |-> U16At(f, 2)]

\* ------------------------------------------------------ sendReliable
RETRY_COUNT(v) == IF v = "rfm95" THEN RETRY_COUNT_RFM95 ELSE RETRY_COUNT_POLL

\* an acceptance test that compares against the wrong seq
AckAcceptedRfm95_WrongSeq(f, target, seq) ==
    LET a == Truncate(f, 3)
    IN  ByteAt(a, 1) = MSG_READY_V1 /\ U16At(a, 2) = (seq + 1) % U16

\* transmitter_rfm95.ino: recv into ReadyAckV1 ack{} with rlen = 3, then
\* ack.type == MSG_READY_V1 && ack.seq == sent seq
AckAcceptedRfm95(f, target, seq) ==
    LET a == Truncate(f, 3)
    IN  ByteAt(a, 1) = MSG_READY_V1 /\ U16At(a, 2) = seq

\* cleanup.sh: recv into LoraMsg ack{}, then
\* ack.targetId == targetId && strcmp(ack.payload, "ACK") == 0
AckAcceptedPoll(f, target, seq) ==
    ByteAt(f, 1) = target /\ PayloadIs(f, StrACK)

AckAccepted(v, f, target, seq) ==
    IF v = "rfm95" THEN AckAcceptedRfm95(f, target, seq)
                   ELSE AckAcceptedPoll(f, target, seq)

PrevSeq(seq) == (seq + U16 - 1) % U16
OtherTarget(t) == (t + 1) % NUM_SLAVES

\* What the radio may deliver during an acknowledgment window: the device's
\* acknowledgment of this packet, a late acknowledgment of the previous
\* logical transmission, acknowledgments and traffic of other stations, and
\* a truncated frame.
WindowFrames(v, target, seq) ==
    IF v = "rfm95"
    THEN { EncodeReadyAck(seq),
           EncodeReadyAck(PrevSeq(seq)),
           <<MSG_READY_V1>>,
           EncodeDiscover(seq, target) }
    ELSE { EncodeLoraAck(target, seq),
           EncodeLoraAck(target, PrevSeq(seq)),
           EncodeLoraAck(OtherTarget(target), seq),
           EncodeLoraMsg(target, 0, seq, StrCHECK) }

\* The acknowledgment the addressed device produces for the packet sent:
\* the READY tag (rfm95) or the "ACK" payload from the target (poll), with
\* the seq of the packet.
IsMatchingAck(v, f, target, seq) ==
    IF v = "rfm95"
    THEN f = EncodeReadyAck(seq)
    ELSE f = EncodeLoraAck(target, seq)

\* ---------------------------------------------------------- START batches
\* One ';'-separated entry of a START command: whether both braces are
\* present, the two-digit id, and the number of ','-separated step values.
\* The step values are kept in hundredths of a second (1.5 is 150); vol is
\* the number after '@', or -1 when the entry has no '@'.
EntryT(b, i, cs, vol) ==
    [braces |-> b, id |-> i, nsteps |-> Len(cs), cs |-> cs, vol |-> vol]

DefaultSteps == <<100, 200, 300, 400>>
Entry(b, i, n) == EntryT(b, i, SubSeq(DefaultSteps, 1, n), 0 - 1)

EntryA == Entry(TRUE, 1, 3)
EntryB == EntryT(TRUE, 2, <<50, 150, 250, 350>>, 45)
EntryDev0 == EntryT(TRUE, 0, <<100, 200, 300>>, 20)
EntryDev1 == EntryT(TRUE, 1, <<150, 250, 350>>, 15)
EntryZero == Entry(TRUE, 0, 3)
EntryNoBrace == Entry(FALSE, 1, 3)
EntryBadId == Entry(TRUE, 9, 3)
EntryShort == Entry(TRUE, 2, 2)

BatchChoices ==
    { <<EntryA>>,
      <<EntryA, EntryB>>,
      <<EntryB, EntryB>>,
      <<EntryDev0, EntryDev1>>,
      <<EntryNoBrace, EntryA>>,
      <<EntryZero, EntryB>>,
      <<EntryA, EntryBadId, EntryB>>,
      <<EntryShort, EntryA, EntryB>> }

\* command lines with four and five entries
LongBatches ==
    { <<EntryDev0, EntryDev1, EntryB, EntryA>>,
      <<EntryA, EntryShort, EntryDev0, EntryB, EntryDev1>> }

\* id range check: rfm95 "id < 1 || id > NUM_SLAVES", others
\* "id < 0 || id >= NUM_SLAVES"
IdInRange(v, id) ==
    IF v = "rfm95" THEN id >= 1 /\ id <= NUM_SLAVES
                   ELSE id >= 0 /\ id < NUM_SLAVES

\* the checks an entry passes before its packet is built; the text
\* controller has no "steps < 3" check
EntryValid(v, e) ==
    e.braces /\ IdInRange(v, e.id) /\ (v = "text" \/ e.nsteps >= 3)

\* The step values are held in "double tSec[4]", on the AVR boards of this
\* project a 32-bit IEEE single: a number is the pair <<m, k>> that stands
\* for m / 2^k, with 2^23 <= m < 2^24 (or m = 0); every operation rounds its
\* exact result to 24 significant bits, ties to even.
Pow2Table ==
    <<1, 2, 4, 8, 16, 32, 64, 128, 256, 512, 1024, 2048, 4096, 8192, 16384,
      32768, 65536, 131072, 262144, 524288, 1048576, 2097152, 4194304,
      8388608, 16777216, 33554432, 67108864, 134217728, 268435456,
      536870912, 1073741824>>
Pow2(n) == Pow2Table[n + 1]

MANT == Pow2(24)

RoundHalfEven(n, d) ==
    LET q == n \div d
        r == n % d
    IN  IF 2 * r > d \/ (2 * r = d /\ q % 2 = 1) THEN q + 1 ELSE q

RECURSIVE BitsOver(_)
BitsOver(n) == IF n < MANT THEN 0 ELSE 1 + BitsOver(n \div 2)

RECURSIVE BitsUnder(_)
BitsUnder(n) == IF 2 * n >= MANT THEN 0 ELSE 1 + BitsUnder(2 * n)

\* the single nearest to n / 2^k
FloatOf(n, k) ==
    IF n = 0 THEN <<0, 0>>
    ELSE IF n < MANT THEN <<n * Pow2(BitsUnder(n)), k + BitsUnder(n)>>
    ELSE LET s == BitsOver(n)
             m == RoundHalfEven(n, Pow2(s))
         IN  IF m = MANT THEN <<MANT \div 2, k - s - 1>> ELSE <<m, k - s>>

\* atof of a text with two decimals, given in hundredths: the single
\* nearest to cs / 100
RECURSIVE AtofScale(_, _)
AtofScale(cs, k) == IF cs * Pow2(k) < 50 * MANT THEN AtofScale(cs, k + 1) ELSE k

AtofRound(cs, k) ==
    LET m == RoundHalfEven(cs * Pow2(k), 100)
    IN  IF m = MANT THEN <<MANT \div 2, k - 1>> ELSE <<m, k>>

atof(cs) ==
    IF cs = 0 THEN <<0, 0>>
    ELSE CHOOSE x \in {AtofRound(cs, k) : k \in {AtofScale(cs, 0)}} : TRUE

\* x * 10.0 and x + 0.5
FloatTimes10(x) == FloatOf(x[1] * 10, x[2])
FloatPlusHalf(x) == IF x[1] = 0 THEN FloatOf(1, 1) ELSE FloatOf(x[1] + Pow2(x[2] - 1), x[2])

\* the conversion to an integer type drops the fraction
FloatTrunc(x) == x[1] \div Pow2(x[2])

\* pkt.t_ds[i] = (uint16_t)(tSec[i] * 10.0 + 0.5); and a version without
\* the + 0.5. Each intermediate value is computed once, as the element of a
\* one-element set.
ToDs_Truncating(cs) ==
    CHOOSE d \in {FloatTrunc(p) % U16 : p \in {FloatTimes10(x) : x \in {atof(cs)}}} : TRUE

ToDs(cs) ==
    CHOOSE d \in {FloatTrunc(s) % U16 :
                     s \in {FloatPlusHalf(p) :
                              p \in {FloatTimes10(x) : x \in {atof(cs)}}}} : TRUE
StepsDs(e) == [i \in 1..4 |-> IF i <= e.nsteps THEN ToDs(e.cs[i]) ELSE 0]

\* volForThis: the default 20, or the number after '@' clamped to 0..30
VolumeOf(e) ==
    IF e.vol < 0 THEN 20 ELSE IF e.vol > 30 THEN 30 ELSE e.vol

\* startDelaySec * 1000000UL
StartDelayUs == FromNat(2 * 1000000)

\* (unsigned long)(tSec[2] * 1000000.0); the text controller takes
\* (unsigned long)atoi(tok) * 1000000UL of the third token, whole seconds
GreenUs(v, e) ==
    IF v = "text" THEN FromNat((e.cs[3] \div 100) * 1000000)
                  ELSE FromNat(e.cs[3] * 10000)

\* 0xFFFFFFFFUL, the initial earliestGreenTime
NoGreen == <<U16 - 1, U16 - 1>>

\* a < b on unsigned long
ULt(a, b) == a[1] < b[1] \/ (a[1] = b[1] /\ a[2] < b[2])

\* The text controller's line "ST2:<seq>|<t0|t1|...>:<masterStart>:<vol>":
\* the step values go out as typed
BuildST2(e, seq, ms) ==
    [type |-> "ST2", seq |-> seq, masterStart |-> ms, volume |-> VolumeOf(e),
     steps |-> e.nsteps, t_cs |-> e.cs]

\* The StartPacketV1 built for a valid entry.  rfm95 fills targetId and
\* currentClock and takes masterStart from the clock read for this entry;
\* poll and nrf24 leave both fields zero and use the batch's masterStartTime.
BuildStart(v, e, seq, now, ms) ==
    IF v = "text" THEN BuildST2(e, seq, ms) ELSE
    [type |-> MSG_START_V1,
     seq |-> seq,
     targetId |-> IF v = "rfm95" THEN e.id ELSE 0,
     currentClock |-> IF v = "rfm95" THEN now ELSE <<0, 0>>,
     masterStart |-> IF v = "rfm95" THEN Add32(now, StartDelayUs) ELSE ms,
     volume |-> VolumeOf(e),
     steps |-> e.nsteps,
     t_ds |-> StepsDs(e)]

\* what cmdPkts keeps of one START: the packet, the device it was sent to
\* and the controller clock when it was built
SentStart(v, e, seq, now, ms) ==
    [to |-> e.id, at |-> now, pkt |-> BuildStart(v, e, seq, now, ms)]

\* if (gtime < earliestGreenTime) earliestGreenTime = gtime; the text
\* controller does so only if the entry has a third token (greenOffset >= 0)
TrackGreen(v, egt, ms, e) ==
    IF e.nsteps < 3 THEN egt
    ELSE LET gtime == Add32(ms, GreenUs(v, e))
         IN  IF ULt(gtime, egt) THEN gtime ELSE egt

\* while ((long)(micros() - earliestGreenTime) < 0) delay(1)
WaitUntil(now, t) == IF SLt0(Sub32(now, t)) THEN t ELSE now

\* ACK_TIMEOUT_MS, in microseconds
AckTimeoutUs(v) == FromNat((IF v = "rfm95" THEN 300 ELSE 150) * 1000)

\* delay(15 + (id * 7 + attempt * 11) % 20) before each READY poll; the sum
\* over the polls made: one if the first is answered, three if none is
PollDelayMs(id, attempt) == 15 + ((id * 7 + attempt * 11) % 20)
PollUs(id, ok, ready) ==
    FromNat(1000 * (IF ~ok THEN 0
                    ELSE IF ready THEN PollDelayMs(id, 0)
                    ELSE PollDelayMs(id, 0) + PollDelayMs(id, 1) + PollDelayMs(id, 2)))

\* the text controller's delay(5) before and delay(10) after sendStartSequence
TextEntryUs == FromNat((5 + 10) * 1000)

\* micros() when a command line arrives: the controller has idled for an
\* arbitrary time, here shortly before or well after the counter wraps.
\* The counter is followed through a START command, whose handler compares
\* it with times it computed, and picked afresh when the next command arrives.
TxClockStarts == { Sub32(<<0, 0>>, FromNat(4700000)), FromNat(1000000) }

\* loop bounds of the sweeps: rfm95 "for (i = 1; i <= NUM_SLAVES; i++)",
\* poll "for (i = 0; i < NUM_SLAVES; i++)"
FirstSlave(v) == IF v = "rfm95" THEN 1 ELSE 0
LastSlave(v) == IF v = "rfm95" THEN NUM_SLAVES ELSE NUM_SLAVES - 1

SweepKinds(v) ==
    IF v = "rfm95" THEN {"DISCOVER"}
    ELSE IF v = "poll" THEN {"CHECK", "SYNC", "FLASH"}
    ELSE {}

\* A sendReliable call: its arguments, the attempt it is in, and what the
\* radio saw of it: transmissions made (tx), whether and in which attempt the
\* matching acknowledgment arrived (matched, matchedAt), the frame that made
\* it return true (acc) and its result.
NoCall == [target |-> 0, seq |-> 0, attempt |-> 0, tx |-> 0,
           matched |-> FALSE, matchedAt |-> 0, acc |-> <<>>, result |-> "none"]

NewCall(target, seq) ==
    [target |-> target, seq |-> seq, attempt |-> 1, tx |-> 0,
     matched |-> FALSE, matchedAt |-> 0, acc |-> <<>>, result |-> "none"]

SeqStarts == {1, U16 - 1}

InitTx ==
    /\ txVariant \in {"rfm95", "poll", "nrf24", "text"}
    /\ seqId \in SeqStarts
    /\ txPc = "idle"
    /\ cmdKind = "none"
    /\ batch = <<>>
    /\ idx = 0
    /\ call = NoCall
    /\ cmdsRun = 0
    /\ txNow = <<0, 0>>
    /\ masterStartTime = <<0, 0>>
    /\ earliestGreenTime = NoGreen
    /\ cmdSent = <<>>
    /\ cmdFailed = 0
    /\ usedSeqs = <<>>
    /\ cmdPkts = <<>>
    /\ markers = <<>>

\* loop(): a DISCOVER / SYNC / FLASH line starts a sweep over the devices
CmdSweep(kind) ==
    /\ txPc = "idle"
    /\ cmdsRun < MaxCmds
    /\ kind \in SweepKinds(txVariant)
    /\ cmdKind' = kind
    /\ idx' = FirstSlave(txVariant)
    /\ txPc' = "sweep"
    /\ cmdsRun' = cmdsRun + 1
    /\ cmdSent' = <<>>
    /\ cmdFailed' = 0
    /\ batch' = <<>>
    /\ txNow' \in TxClockStarts
    /\ cmdPkts' = <<>>
    /\ markers' = <<>>
    /\ UNCHANGED <<txVariant, seqId, call, usedSeqs, masterStartTime, earliestGreenTime>>
    /\ UNCHANGED besidesTx

\* one iteration of the sweep's for loop: sendDiscover(i) / checkSlave(i) /
\* sendSync(i) / sendFlash(i): pkt.seq = seqId++, then sendReliable
SweepStep ==
    /\ txPc = "sweep"
    /\ IF idx > LastSlave(txVariant)
       THEN /\ txPc' = "idle"
            /\ UNCHANGED <<seqId, call, usedSeqs>>
       ELSE /\ seqId' = (seqId + 1) % U16
            /\ call' = NewCall(idx, seqId)
            /\ usedSeqs' = Append(usedSeqs, seqId)
            /\ txPc' = "tx"
    /\ UNCHANGED <<txVariant, cmdKind, batch, idx, cmdsRun, cmdSent, cmdFailed>>
    /\ UNCHANGED <<txNow, masterStartTime, earliestGreenTime, cmdPkts, markers>>
    /\ UNCHANGED besidesTx

\* sendFlashBroadcast(): pkt.seq = seqId++, one transmission, no ack wait
CmdFlashBroadcast ==
    /\ txPc = "idle"
    /\ cmdsRun < MaxCmds
    /\ txVariant = "rfm95"
    /\ cmdKind' = "BROADCAST"
    /\ seqId' = (seqId + 1) % U16
    /\ usedSeqs' = Append(usedSeqs, seqId)
    /\ cmdsRun' = cmdsRun + 1
    /\ cmdSent' = <<>>
    /\ cmdFailed' = 0
    /\ batch' = <<>>
    /\ txNow' \in TxClockStarts
    /\ cmdPkts' = <<>>
    /\ markers' = <<>>
    /\ UNCHANGED <<txVariant, txPc, idx, call, masterStartTime, earliestGreenTime>>
    /\ UNCHANGED besidesTx

\* loop(): a START:<pattern> line
CmdStart(b) ==
    /\ txPc = "idle"
    /\ cmdsRun < MaxCmds
    /\ b \in BatchChoices \cup LongBatches
    /\ cmdKind' = "START"
    /\ batch' = b
    /\ idx' = 1
    /\ txPc' = "batch"
    /\ cmdsRun' = cmdsRun + 1
    /\ cmdSent' = <<>>
    /\ cmdFailed' = 0
    /\ txNow' \in TxClockStarts
    /\ masterStartTime' = IF txVariant = "rfm95" THEN masterStartTime
                           ELSE Add32(txNow', StartDelayUs)
    /\ earliestGreenTime' = NoGreen
    /\ cmdPkts' = <<>>
    /\ markers' = <<>>
    /\ UNCHANGED <<txVariant, seqId, call, usedSeqs>>
    /\ UNCHANGED besidesTx

\* the end of handleMultiStartBinary (poll, nrf24, text): if a green time was
\* tracked, wait for it and print STARTTIMER.  handleStartCommand (rfm95)
\* ends with "START sequence complete." and prints no STARTTIMER.
EndOfBatch ==
    IF txVariant # "rfm95" /\ earliestGreenTime # NoGreen
    THEN /\ txNow' = WaitUntil(txNow, earliestGreenTime)
         /\ markers' = Append(markers, txNow')
    ELSE UNCHANGED <<txNow, markers>>

\* handleStartCommand / handleMultiStartBinary (rfm95, poll): one pass of
\* the while (entry) loop up to the sendReliable call.  An invalid entry is
\* skipped with "continue"; a valid one gets pkt.seq = seqId++.  rfm95
\* reads micros() and computes masterStartTime here, for each entry.
BatchStep ==
    /\ txPc = "batch"
    /\ txVariant \in {"rfm95", "poll"}
    /\ IF idx > Len(batch)
       THEN /\ txPc' = "idle"
            /\ EndOfBatch
            /\ UNCHANGED <<seqId, call, usedSeqs, idx, masterStartTime,
                           earliestGreenTime, cmdPkts>>
       ELSE IF ~EntryValid(txVariant, batch[idx])
       THEN /\ idx' = idx + 1
            /\ UNCHANGED <<seqId, call, usedSeqs, txPc, txNow, masterStartTime,
                           earliestGreenTime, cmdPkts, markers>>
       ELSE /\ seqId' = (seqId + 1) % U16
            /\ call' = NewCall(batch[idx].id, seqId)
            /\ usedSeqs' = Append(usedSeqs, seqId)
            /\ masterStartTime' = IF txVariant = "rfm95"
                                   THEN Add32(txNow, StartDelayUs)
                                   ELSE masterStartTime
            /\ earliestGreenTime' =
                   IF txVariant = "rfm95" THEN earliestGreenTime
                   ELSE TrackGreen(txVariant, earliestGreenTime, masterStartTime,
                                   batch[idx])
            /\ cmdPkts' = Append(cmdPkts, SentStart(txVariant, batch[idx], seqId,
                                                     txNow, masterStartTime))
            /\ txPc' = "tx"
            /\ UNCHANGED <<idx, txNow, markers>>
    /\ UNCHANGED <<txVariant, cmdKind, batch, cmdsRun, cmdSent, cmdFailed>>
    /\ UNCHANGED besidesTx

\* handleMultiStartBinary (nrf24), handleMultiStart (text): one pass of the
\* while (entry) loop.  The packet takes pkt.seq = seqId; radio.write reports
\* the hardware ack (ok); if ok the READY payload is polled up to three
\* times.  After the last entry seqId is advanced once.
NrfBatchStep(ok, ready) ==
    /\ txPc = "batch"
    /\ txVariant \in {"nrf24", "text"}
    /\ IF idx > Len(batch)
       THEN /\ seqId' = (seqId + 1) % U16
            /\ txPc' = "idle"
            /\ EndOfBatch
            /\ UNCHANGED <<call, usedSeqs, idx, cmdSent, cmdFailed,
                           earliestGreenTime, cmdPkts>>
       ELSE IF ~EntryValid(txVariant, batch[idx])
       THEN /\ idx' = idx + 1
            /\ UNCHANGED <<seqId, call, usedSeqs, txPc, cmdSent, cmdFailed,
                           txNow, earliestGreenTime, cmdPkts, markers>>
       ELSE /\ usedSeqs' = Append(usedSeqs, seqId)
            /\ earliestGreenTime' =
                   TrackGreen(txVariant, earliestGreenTime, masterStartTime, batch[idx])
            /\ cmdPkts' = Append(cmdPkts, SentStart(txVariant, batch[idx], seqId,
                                                     txNow, masterStartTime))
            /\ txNow' = Add32(Add32(txNow, PollUs(batch[idx].id, ok, ready)),
                              IF txVariant = "text" THEN TextEntryUs ELSE <<0, 0>>)
            /\ UNCHANGED markers
            /\ cmdSent' = Append(cmdSent, batch[idx].id)
            /\ call' = [target |-> batch[idx].id, seq |-> seqId, attempt |-> 1,
                        tx |-> 1, matched |-> ok /\ ready,
                        matchedAt |-> IF ok /\ ready THEN 1 ELSE 0,
                        acc |-> IF ok /\ ready /\ txVariant = "nrf24"
                                THEN EncodeReadyAck(seqId) ELSE <<>>,
                        result |-> IF ok /\ ready THEN "acked" ELSE "failed"]
            /\ cmdFailed' = IF ok /\ ready THEN cmdFailed ELSE cmdFailed + 1
            /\ idx' = idx + 1
            /\ UNCHANGED <<seqId, txPc>>
    /\ UNCHANGED <<txVariant, cmdKind, batch, cmdsRun, masterStartTime>>
    /\ UNCHANGED besidesTx

\* sendReliable: rf95.send(data, len); rf95.waitPacketSent(); then the
\* acknowledgment window opens
SR_Transmit ==
    /\ txPc = "tx"
    /\ call' = [call EXCEPT !.tx = @ + 1]
    /\ cmdSent' = IF call.tx = 0 THEN Append(cmdSent, call.target) ELSE cmdSent
    /\ txPc' = "wait"
    /\ UNCHANGED <<txVariant, seqId, cmdKind, batch, idx, cmdsRun, cmdFailed, usedSeqs>>
    /\ UNCHANGED <<txNow, masterStartTime, earliestGreenTime, cmdPkts, markers>>
    /\ UNCHANGED besidesTx

\* the loop the caller resumes after sendReliable returns
CallerPc == IF cmdKind = "START" THEN "batch" ELSE "sweep"

\* sendReliable, inside the window: rf95.available() and recv() deliver a
\* frame; an accepted acknowledgment returns true, anything else is dropped
\* and the window stays open
SR_Recv(f) ==
    /\ txPc = "wait"
    /\ f \in WindowFrames(txVariant, call.target, call.seq)
    /\ LET m == IsMatchingAck(txVariant, f, call.target, call.seq)
           seen == [call EXCEPT !.matched = @ \/ m,
                                !.matchedAt = IF m /\ @ = 0 THEN call.attempt ELSE @]
       IN  IF AckAccepted(txVariant, f, call.target, call.seq)
           THEN /\ call' = [seen EXCEPT !.result = "acked", !.acc = f]
                /\ txPc' = CallerPc
                /\ idx' = idx + 1
           ELSE /\ call' = seen
                /\ UNCHANGED <<txPc, idx>>
    /\ UNCHANGED <<txVariant, seqId, cmdKind, batch, cmdsRun, cmdSent, cmdFailed, usedSeqs>>
    /\ UNCHANGED <<txNow, masterStartTime, earliestGreenTime, cmdPkts, markers>>
    /\ UNCHANGED besidesTx

\* a sendReliable whose failure ends the command
SR_Timeout_Abort ==
    /\ txPc = "wait"
    /\ IF call.attempt < RETRY_COUNT(txVariant)
       THEN /\ call' = [call EXCEPT !.attempt = @ + 1]
            /\ txPc' = "tx"
            /\ UNCHANGED <<idx, cmdFailed>>
       ELSE /\ call' = [call EXCEPT !.result = "failed"]
            /\ cmdFailed' = cmdFailed + 1
            /\ txPc' = "idle"
            /\ idx' = idx + 1
    /\ txNow' = IF cmdKind = "START" THEN Add32(txNow, AckTimeoutUs(txVariant)) ELSE txNow
    /\ UNCHANGED <<txVariant, seqId, cmdKind, batch, cmdsRun, cmdSent, usedSeqs>>
    /\ UNCHANGED <<masterStartTime, earliestGreenTime, cmdPkts, markers>>
    /\ UNCHANGED besidesTx

\* sendReliable, the window ends (millis() - start >= ACK_TIMEOUT_MS): next
\* attempt, or return false after the last one
SR_Timeout ==
    /\ txPc = "wait"
    /\ IF call.attempt < RETRY_COUNT(txVariant)
       THEN /\ call' = [call EXCEPT !.attempt = @ + 1]
            /\ txPc' = "tx"
            /\ UNCHANGED <<idx, cmdFailed>>
       ELSE /\ call' = [call EXCEPT !.result = "failed"]
            /\ cmdFailed' = cmdFailed + 1
            /\ txPc' = CallerPc
            /\ idx' = idx + 1
    /\ txNow' = IF cmdKind = "START" THEN Add32(txNow, AckTimeoutUs(txVariant)) ELSE txNow
    /\ UNCHANGED <<txVariant, seqId, cmdKind, batch, cmdsRun, cmdSent, usedSeqs>>
    /\ UNCHANGED <<masterStartTime, earliestGreenTime, cmdPkts, markers>>
    /\ UNCHANGED besidesTx

NextTx ==
    \/ \E k \in {"DISCOVER", "CHECK", "SYNC", "FLASH"} : CmdSweep(k)
    \/ SweepStep
    \/ CmdFlashBroadcast
    \/ \E b \in BatchChoices : CmdStart(b)
    \/ BatchStep
    \/ \E ok \in BOOLEAN, ready \in BOOLEAN : NrfBatchStep(ok, ready)
    \/ SR_Transmit
    \/ \E f \in WindowFrames(txVariant, call.target, call.seq) : SR_Recv(f)
    \/ SR_Timeout

\* ======================================================================
\*                               device
\* ======================================================================
DEVICE_ID_RFM95 == 2
DEVICE_ID_LORA == 3
MAX_ACTIONS == 12
ACT_PLAY == 1
ACT_LED_RED == 2
ACT_LED_ORANGE == 3
ACT_LED_GREEN == 4
ACT_ALL_OFF == 5
TRACK_FOR_STEP == <<1, 2, 3, 4>>
PLAY_VOL == 20

NoAction == [t |-> <<0, 0>>, type |-> 0, arg |-> 0]

\* addAction: if (totalSteps < MAX_ACTIONS) actions[totalSteps++] = {t, type, arg}
addAction(list, t, type, arg) ==
    IF Len(list) < MAX_ACTIONS
    THEN Append(list, [t |-> t, type |-> type, arg |-> arg])
    ELSE list

\* sortActions / sortActionsByTime: insertion sort on (long)(a.t - key.t) > 0
RECURSIVE InsPos(_, _, _)
InsPos(list, key, j) ==
    IF j >= 1 /\ SGt0(Sub32(list[j].t, key.t))
    THEN InsPos(list, key, j - 1)
    ELSE j

RECURSIVE SortFrom(_, _)
SortFrom(list, i) ==
    IF i > Len(list) THEN list
    ELSE LET key == list[i]
             j == InsPos(list, key, i - 1)
         IN  SortFrom(SubSeq(list, 1, j) \o <<key>> \o SubSeq(list, j + 1, i - 1)
                      \o SubSeq(list, i + 1, Len(list)), i + 1)

sortActions(list) == SortFrom(list, 2)

LedType(i) == IF i = 0 THEN ACT_LED_RED ELSE IF i = 1 THEN ACT_LED_ORANGE ELSE ACT_LED_GREEN

\* the "for (i = 0; i < pkt.steps && i < 3; i++)" loop of the START handler,
\* and a version that goes on to a fourth step
RECURSIVE AddSteps_FourSteps(_, _, _, _)
AddSteps_FourSteps(list, pkt, base, i) ==
    IF i < pkt.steps /\ i < 4
    THEN LET ledT == Add32(base, ds_to_us(pkt.t_ds[i + 1]))
             p == Sub32(ledT, LeadUs)
             playT == IF SLt0(Sub32(p, base)) THEN base ELSE p
         IN  AddSteps_FourSteps(
                addAction(addAction(list, playT, ACT_PLAY, TRACK_FOR_STEP[i + 1]),
                          ledT, LedType(i), 0),
                pkt, base, i + 1)
    ELSE list

RECURSIVE AddSteps(_, _, _, _)
AddSteps(list, pkt, base, i) ==
    IF i < pkt.steps /\ i < 3
    THEN LET ledT == Add32(base, ds_to_us(pkt.t_ds[i + 1]))
             p == Sub32(ledT, LeadUs)
             playT == IF SLt0(Sub32(p, base)) THEN base ELSE p
         IN  AddSteps(addAction(addAction(list, playT, ACT_PLAY, TRACK_FOR_STEP[i + 1]),
                                ledT, LedType(i), 0),
                      pkt, base, i + 1)
    ELSE list

\* the list the START handler leaves behind: steps, optional all-off, sort
BuildActions(pkt, base) ==
    LET stepsList == AddSteps(<<>>, pkt, base, 0)
        withOff == IF pkt.steps >= 4
                   THEN addAction(stepsList, Add32(base, ds_to_us(pkt.t_ds[4])),
                                  ACT_ALL_OFF, 0)
                   ELSE stepsList
    IN  sortActions(withOff)

\* parseAndScheduleSequence of the "ST2:" text device (part_007:342-407): the
\* step values arrive as typed (t_cs, hundredths of a second) and become
\* (unsigned long)(timeSec[i] * 1000000UL); PlayAudio is put at
\* ledT[i] - lead with no further test
cs_to_us(cs) == Add32(ds_to_us(cs \div 10), FromNat((cs % 10) * 10000))

RECURSIVE AddStepsST2(_, _, _, _, _)
AddStepsST2(list, n, t_cs, masterNow, i) ==
    IF i < n /\ i < 3
    THEN LET ledT == Add32(masterNow, cs_to_us(t_cs[i + 1]))
             playT == Sub32(ledT, LeadUs)
         IN  AddStepsST2(addAction(addAction(list, playT, ACT_PLAY, TRACK_FOR_STEP[i + 1]),
                                   ledT, LedType(i), 0),
                         n, t_cs, masterNow, i + 1)
    ELSE list

BuildActionsST2(n, t_cs, masterNow) ==
    LET stepsList == AddStepsST2(<<>>, n, t_cs, masterNow, 0)
        withOff == IF n >= 4
                   THEN addAction(stepsList, Add32(masterNow, cs_to_us(t_cs[4])),
                                  ACT_ALL_OFF, 0)
                   ELSE stepsList
    IN  sortActions(withOff)

\* base time of the schedule: rfm95 "micros() + (masterStart - currentClock)",
\* nrf24 / lora "masterStart + timeOffset"
StartBase_StoredOffset(v, pkt, now, offset) == Add32(pkt.masterStart, offset)

StartBase(v, pkt, now, offset) ==
    IF v = "rfm95"
    THEN Add32(now, Sub32(pkt.masterStart, pkt.currentClock))
    ELSE Add32(pkt.masterStart, offset)

AllOff == [red |-> FALSE, orange |-> FALSE, green |-> FALSE]
Silent == [track |-> 0, vol |-> 0]

constrain(x, lo, hi) == IF x < lo THEN lo ELSE IF x > hi THEN hi ELSE x

\* executeStep: the outputs after the action
LedsAfter(l, a) ==
    IF a.type = ACT_LED_RED THEN [l EXCEPT !.red = TRUE]
    ELSE IF a.type = ACT_LED_ORANGE THEN [l EXCEPT !.red = FALSE, !.orange = TRUE]
    ELSE IF a.type = ACT_LED_GREEN THEN [l EXCEPT !.orange = FALSE, !.green = TRUE]
    ELSE IF a.type = ACT_ALL_OFF THEN AllOff
    ELSE l

AudioAfter(v, au, a, vol) ==
    IF a.type = ACT_PLAY
    THEN [track |-> a.arg, vol |-> IF v = "rfm95" THEN vol ELSE constrain(vol, 0, 30)]
    ELSE IF a.type = ACT_ALL_OFF THEN Silent
    ELSE au

\* ------------------------------------------------------ device environment
\* The controller's clock runs SkewUs behind the device's; a START names a
\* start time StartLeadUs after the controller's clock.
SkewUs == FromNat(3000000)
StartLeadUs == FromNat(2000000)
QuantumUs == FromNat(1000000)
\* the device's clock is about to wrap
RxClockStart == <<U16 - 1, 40000>>

\* the directive part of a START: volume, step count, offsets in deciseconds
Directive(vol, n, t) == [volume |-> vol, steps |-> n, t_ds |-> t]
StartDirectives ==
    { Directive(20, 4, <<10, 20, 30, 40>>),
      Directive(15, 3, <<0, 0, 0, 0>>),
      Directive(20, 3, <<20, 10, 30, 0>>),
      Directive(20, 3, <<30000, 10, 20, 0>>) }

\* steps is one byte of the packet, read as it comes: directives with every
\* kind of step count, from none to the largest the byte holds
StepCounts == {0, 1, 2, 3, 4, 5, 255}
StepCountDirectives == { Directive(20, n, <<0, 10, 20, 30>>) : n \in StepCounts }

NoPkt == [type |-> 0, seq |-> 0 - 1, targetId |-> 0, currentClock |-> <<0, 0>>,
          masterStart |-> <<0, 0>>, volume |-> 0, steps |-> 0,
          t_ds |-> <<0, 0, 0, 0>>]

NoHandled == [kind |-> "none", pkt |-> NoPkt, forMe |-> FALSE, dup |-> FALSE]

\* stations a frame can be addressed to: this device and one other
RxTargets(v) ==
    IF v = "rfm95" THEN {DEVICE_ID_RFM95, DEVICE_ID_RFM95 + 1}
    ELSE IF v = "lora" THEN {DEVICE_ID_LORA, DEVICE_ID_LORA + 1}
    ELSE {0}

\* The START frame as it reaches each device.  rfm95: StartPacketV1 with
\* targetId and currentClock.  nrf24: StartPacketV1 sent to the device's pipe,
\* targetId and currentClock left 0.  lora: the device reads the frame
\* through the LoraMsg layout (byte 0 targetId, byte 4 payload[0]), so a frame
\* it takes for a START holds the station in byte 0 and the tag in byte 4.
StartFrame(v, target, seq, now, d) ==
    LET ctrl == Sub32(now, SkewUs)
    IN  EncodeStart(
          [type |-> IF v = "lora" THEN target ELSE MSG_START_V1,
           seq |-> seq,
           targetId |-> IF v = "rfm95" THEN target ELSE 0,
           currentClock |-> IF v = "rfm95" THEN ctrl
                            ELSE IF v = "lora" THEN <<0, MSG_START_V1>>
                            ELSE <<0, 0>>,
           masterStart |-> Add32(ctrl, StartLeadUs),
           volume |-> d.volume,
           steps |-> d.steps,
           t_ds |-> d.t_ds])

InitRx ==
    /\ rxVariant \in {"nrf24", "rfm95", "lora"}
    /\ rxNow = RxClockStart
    /\ rxPc = "poll"
    /\ actions = <<>>
    /\ totalSteps = 0
    /\ currentStep = 0
    /\ scheduleVolume = PLAY_VOL
    /\ lastSeq = 0
    /\ lastMasterStart = <<0, 0>>
    /\ timeOffset = <<0, 0>>
    /\ leds = AllOff
    /\ audio = Silent
    /\ rxAck = 0 - 1
    /\ handled = NoHandled
    /\ rxFrame = <<>>
    /\ fresh = NoPkt
    /\ built = [pkt |-> NoPkt, base |-> <<0, 0>>]
    /\ rxExec = NoAction
    /\ envSeq = 1
    /\ envLast = <<>>
    /\ sent = 0
    /\ elapsed = 0

\* a START with the (seq, masterStart) of the last START the device processed
IsRepeat(pkt) == fresh # NoPkt /\ pkt.seq = fresh.seq /\ pkt.masterStart = fresh.masterStart

\* observation of a START reaching the handler
NoteStart(pkt, forMe) ==
    /\ handled' = [kind |-> "START", pkt |-> pkt, forMe |-> forMe,
                   dup |-> forMe /\ IsRepeat(pkt)]
    /\ fresh' = IF forMe /\ ~IsRepeat(pkt) THEN pkt ELSE fresh
    /\ rxExec' = NoAction

NoteOther(kind) ==
    /\ handled' = [kind |-> kind, pkt |-> NoPkt, forMe |-> FALSE, dup |-> FALSE]
    /\ rxExec' = NoAction
    /\ UNCHANGED fresh

\* a rebuild that appends to the list in place and keeps the cursor
Rebuild_KeepOld(pkt) ==
    LET base == StartBase(rxVariant, pkt, rxNow, timeOffset)
        list == sortActions(Truncate(actions \o BuildActions(pkt, base), MAX_ACTIONS))
    IN  /\ actions' = list
        /\ totalSteps' = Len(list)
        /\ currentStep' = currentStep
        /\ scheduleVolume' = pkt.volume
        /\ built' = [pkt |-> pkt, base |-> base]

\* totalSteps = 0; currentStep = 0; scheduleVolume = pkt.volume; build; sort
Rebuild(pkt) ==
    LET base == StartBase(rxVariant, pkt, rxNow, timeOffset)
        list == BuildActions(pkt, base)
    IN  /\ actions' = list
        /\ totalSteps' = Len(list)
        /\ currentStep' = 0
        /\ scheduleVolume' = pkt.volume
        /\ built' = [pkt |-> pkt, base |-> base]

Untouched == UNCHANGED <<actions, totalSteps, currentStep, scheduleVolume, built>>

\* receiver_rfm95.ino handleStart: target check, sendAck, rebuild; and a
\* version that acknowledges before it looks at the target
handleStart_AckFirst(pkt) ==
    /\ rxAck' = pkt.seq
    /\ UNCHANGED <<lastSeq, lastMasterStart>>
    /\ IF pkt.targetId # DEVICE_ID_RFM95
       THEN Untouched /\ NoteStart(pkt, FALSE)
       ELSE Rebuild(pkt) /\ NoteStart(pkt, TRUE)

handleStart(pkt) ==
    IF pkt.targetId # DEVICE_ID_RFM95
    THEN /\ rxAck' = 0 - 1
         /\ Untouched
         /\ NoteStart(pkt, FALSE)
         /\ UNCHANGED <<lastSeq, lastMasterStart>>
    ELSE /\ rxAck' = pkt.seq
         /\ Rebuild(pkt)
         /\ NoteStart(pkt, TRUE)
         /\ UNCHANGED <<lastSeq, lastMasterStart>>

\* Receiver.ino / transmitter.ino parseStartBinary: dedupe on (seq,
\* masterStart), rebuild, remember; preloadReadyAck only in Receiver.ino
parseStartBinary(pkt) ==
    /\ rxAck' = IF rxVariant = "nrf24" THEN pkt.seq ELSE 0 - 1
    /\ NoteStart(pkt, TRUE)
    /\ IF pkt.seq = lastSeq /\ pkt.masterStart = lastMasterStart
       THEN /\ Untouched
            /\ UNCHANGED <<lastSeq, lastMasterStart>>
       ELSE /\ Rebuild(pkt)
            /\ lastSeq' = pkt.seq
            /\ lastMasterStart' = pkt.masterStart

Ignore(kind) ==
    /\ rxAck' = 0 - 1
    /\ NoteOther(kind)
    /\ Untouched
    /\ UNCHANGED <<lastSeq, lastMasterStart>>

\* receiver_rfm95.ino handleDiscover: target check, sendAck
handleDiscover(pkt) ==
    /\ rxAck' = IF pkt.targetId # DEVICE_ID_RFM95 THEN 0 - 1 ELSE pkt.seq
    /\ handled' = [kind |-> "DISCOVER", pkt |-> NoPkt,
                   forMe |-> pkt.targetId = DEVICE_ID_RFM95, dup |-> FALSE]
    /\ rxExec' = NoAction
    /\ Untouched
    /\ UNCHANGED <<fresh, lastSeq, lastMasterStart>>

\* the blocking LED test of handleBroadcast: three rounds of green, orange,
\* red, each 200 ms on and 200 ms off
FlashUs == FromNat(3 * 6 * 200 * 1000)
\* ... counted in whole clock quanta
FlashQuanta == (3 * 6 * 200 + 999) \div 1000
IsFlash(f) ==
    /\ ByteAt(f, 1) = MSG_BROADCAST_V1 /\ Len(f) = BROADCAST_LEN
    /\ DecodeBroadcast(f).command = CMD_FLASH

\* receiver_rfm95.ino handleBroadcast: CMD_FLASH runs the LED test, which
\* leaves the three outputs LOW; no acknowledgment
handleBroadcast(pkt) ==
    /\ rxAck' = 0 - 1
    /\ NoteOther("BROADCAST")
    /\ Untouched
    /\ UNCHANGED <<lastSeq, lastMasterStart>>
    /\ IF pkt.command = CMD_FLASH
       THEN leds' = AllOff /\ rxNow' = Add32(rxNow, FlashUs)
       ELSE UNCHANGED <<leds, rxNow>>

\* loop(), the receive part, for one frame.  rfm95: length >= 3, tag and
\* exact length select the handler, then the pass goes on to the tick.
\* nrf24: the drain loop handles the frame and looks for the next one.
\* lora: length >= 4 and msg->targetId == DEVICE_ID or the pass ends.
RecvFrame(f) ==
    /\ rxFrame' = f
    /\ IF rxVariant = "rfm95"
       THEN IF Len(f) < 3
            THEN Ignore("short") /\ rxPc' = "poll" /\ UNCHANGED <<leds, rxNow>>
            ELSE /\ rxPc' = "tick"
                 /\ IF ByteAt(f, 1) = MSG_DISCOVER_V1 /\ Len(f) = DISCOVER_LEN
                    THEN handleDiscover(DecodeDiscover(f)) /\ UNCHANGED <<leds, rxNow>>
                    ELSE IF ByteAt(f, 1) = MSG_START_V1 /\ Len(f) = START_LEN
                    THEN handleStart(DecodeStart(f)) /\ UNCHANGED <<leds, rxNow>>
                    ELSE IF ByteAt(f, 1) = MSG_BROADCAST_V1 /\ Len(f) = BROADCAST_LEN
                    THEN handleBroadcast(DecodeBroadcast(f))
                    ELSE Ignore("other") /\ UNCHANGED <<leds, rxNow>>
       ELSE IF rxVariant = "nrf24"
       THEN /\ rxPc' = "poll"
            /\ UNCHANGED <<leds, rxNow>>
            /\ IF ByteAt(f, 1) = MSG_START_V1 /\ Len(f) = START_LEN
               THEN parseStartBinary(DecodeStart(f))
               ELSE Ignore("other")
       ELSE /\ UNCHANGED <<leds, rxNow>>
            /\ IF Len(f) < 4 \/ ByteAt(f, 1) # DEVICE_ID_LORA
               THEN Ignore("notmine") /\ rxPc' = "poll"
               ELSE /\ rxPc' = "tick"
                    /\ IF ByteAt(f, 5) = MSG_START_V1 /\ Len(f) = START_LEN
                       THEN parseStartBinary(DecodeStart(f))
                       ELSE Ignore("other")

\* What does not change while the device takes in a frame
RecvFrame_Same == UNCHANGED <<rxVariant, timeOffset, audio, elapsed>>

\* the controller sends a new START and the device receives it
RxNewStart(d, target) ==
    /\ rxPc = "poll"
    /\ sent < MaxSent
    /\ d \in StartDirectives \cup StepCountDirectives
    /\ target \in RxTargets(rxVariant)
    /\ LET f == StartFrame(rxVariant, target, envSeq, rxNow, d)
       IN  /\ RecvFrame(f)
           /\ envLast' = f
    /\ envSeq' = (envSeq + 1) % U16
    /\ sent' = sent + 1
    /\ RecvFrame_Same
    /\ UNCHANGED besidesRx

\* the controller sends a new START and the device does not receive this
\* transmission of it; sendReliable will send the same bytes again
RxMissedStart(d, target) ==
    /\ rxPc = "poll"
    /\ rxVariant = "rfm95"
    /\ sent < MaxSent
    /\ d \in StartDirectives
    /\ target \in RxTargets(rxVariant)
    /\ envLast' = StartFrame(rxVariant, target, envSeq, rxNow, d)
    /\ envSeq' = (envSeq + 1) % U16
    /\ sent' = sent + 1
    /\ UNCHANGED <<rxVariant, rxNow, rxPc, actions, totalSteps, currentStep,
                   scheduleVolume, lastSeq, lastMasterStart, timeOffset, leds,
                   audio, rxAck, handled, rxFrame, fresh, built, rxExec, elapsed>>
    /\ UNCHANGED besidesRx

\* the controller retransmits its last START (same bytes) and the device
\* receives it
RxRetransmit ==
    /\ rxPc = "poll"
    /\ envLast # <<>>
    /\ RecvFrame(envLast)
    /\ RecvFrame_Same
    /\ UNCHANGED <<envSeq, envLast, sent>>
    /\ UNCHANGED besidesRx

\* handleMultiStartBinary of the nrf24 controller (part_002:140-250) gives
\* every entry of a batch the same seqId and masterStartTime: a further entry
\* of the running batch for this device, with a directive of its own
RxBatchStart(d) ==
    /\ rxPc = "poll"
    /\ rxVariant = "nrf24"
    /\ envLast # <<>>
    /\ sent < MaxSent
    /\ d \in StartDirectives
    /\ LET p == DecodeStart(envLast)
           f == EncodeStart([p EXCEPT !.volume = d.volume, !.steps = d.steps,
                                      !.t_ds = d.t_ds])
       IN  /\ RecvFrame(f)
           /\ envLast' = f
    /\ sent' = sent + 1
    /\ RecvFrame_Same
    /\ UNCHANGED envSeq
    /\ UNCHANGED besidesRx

\* the controller sends a DISCOVER or a BROADCAST (rfm95) and the device
\* receives it
RxNewControl(f) ==
    /\ rxPc = "poll"
    /\ rxVariant = "rfm95"
    /\ sent < MaxSent
    /\ f \in { EncodeDiscover(envSeq, t) : t \in RxTargets(rxVariant) }
             \cup { EncodeBroadcast(envSeq, c) : c \in {CMD_FLASH, CMD_FLASH + 1} }
    /\ IsFlash(f) => elapsed + FlashQuanta <= MaxElapsed
    /\ RecvFrame(f)
    /\ envSeq' = (envSeq + 1) % U16
    /\ sent' = sent + 1
    /\ elapsed' = IF IsFlash(f) THEN elapsed + FlashQuanta ELSE elapsed
    /\ UNCHANGED <<rxVariant, timeOffset, audio, envLast>>
    /\ UNCHANGED besidesRx

\* frames that are no well-formed packet: cut short, a tag with another
\* kind's length, an unknown tag
GarbledFrames ==
    { Truncate(envLast, START_LEN - 1),
      <<MSG_START_V1, 0>>,
      <<MSG_START_V1, 1, 0, DEVICE_ID_RFM95>>,
      <<0, 1, 0, DEVICE_ID_RFM95>> }

\* such a frame reaches the device
RxGarbled(f) ==
    /\ rxPc = "poll"
    /\ envLast # <<>>
    /\ f \in GarbledFrames
    /\ RecvFrame(f)
    /\ RecvFrame_Same
    /\ UNCHANGED <<envSeq, envLast, sent>>
    /\ UNCHANGED besidesRx

\* "SYNC:<micros>" (nrf24, lora): timeOffset = micros() - masterMicros.  The
\* text carries the controller's clock reading; lora acknowledges with the
\* frame's seq.
RxSync ==
    /\ rxPc = "poll"
    /\ rxVariant \in {"nrf24", "lora"}
    /\ sent < MaxSent
    /\ timeOffset' = Sub32(rxNow, Sub32(rxNow, SkewUs))
    /\ rxPc' = IF rxVariant = "nrf24" THEN "poll" ELSE "tick"
    /\ rxAck' = IF rxVariant = "lora" THEN envSeq ELSE 0 - 1
    /\ NoteOther("SYNC")
    /\ rxFrame' = <<>>
    /\ Untouched
    /\ envSeq' = (envSeq + 1) % U16
    /\ sent' = sent + 1
    /\ UNCHANGED <<rxVariant, rxNow, lastSeq, lastMasterStart, leds, audio,
                   envLast, elapsed>>
    /\ UNCHANGED besidesRx

\* ---- the text of a SYNC message
\* "SYNC:" as bytes; the digits '0'..'9' are the bytes 48..57
StrSYNC == <<83, 89, 78, 67, 58>>
IsDigit(b) == b >= 48 /\ b <= 57

\* x / 10 and x % 10 of a 32-bit value
Div10(x) == <<x[1] \div 10, ((x[1] % 10) * U16 + x[2]) \div 10>>
Mod10(x) == ((x[1] % 10) * U16 + x[2]) % 10

\* snprintf(buf, .., "SYNC:%lu", masterMicros) with its terminating NUL
RECURSIVE DecDigits(_)
DecDigits(x) == IF x = <<0, 0>> THEN <<>> ELSE Append(DecDigits(Div10(x)), 48 + Mod10(x))
SyncText(clock) ==
    StrSYNC \o (IF clock = <<0, 0>> THEN <<48>> ELSE DecDigits(clock)) \o <<0>>

\* sscanf(buf + 5, "%lu", &masterMicros) into "unsigned long masterMicros = 0":
\* the value of the leading digits; without a digit nothing is stored and
\* masterMicros keeps its 0
ScanStep(acc, d) ==
    <<(acc[1] * 10 + (acc[2] * 10 + d) \div U16) % U16, (acc[2] * 10 + d) % U16>>
RECURSIVE ScanDigits(_, _, _)
ScanDigits(f, i, accs) ==
    IF i <= Len(f) /\ IsDigit(f[i])
    THEN ScanDigits(f, i + 1, {ScanStep(a, f[i] - 48) : a \in accs})
    ELSE accs
ScanUL(f) == CHOOSE v \in ScanDigits(f, 6, {<<0, 0>>}) : TRUE

\* the controller's clock as this device may find it: behind by SkewUs, or
\* ahead by AheadUs (the SYNC of a controller started earlier)
AheadUs == FromNat(5000000)
SyncFrames(now) ==
    { SyncText(Sub32(now, SkewUs)), SyncText(Add32(now, AheadUs)),
      StrSYNC \o <<0>>, StrSYNC \o <<120, 49, 0>> }

\* Receiver.ino loop(), "SYNC:" branch, with the text of the message:
\* timeOffset = micros() - masterMicros, whatever sscanf returned
RxSyncText(f) ==
    /\ rxPc = "poll"
    /\ rxVariant = "nrf24"
    /\ sent < MaxSent
    /\ Len(f) >= 5 /\ SubSeq(f, 1, 5) = StrSYNC
    /\ timeOffset' = Sub32(rxNow, ScanUL(f))
    /\ rxPc' = "poll"
    /\ rxAck' = 0 - 1
    /\ NoteOther("SYNC")
    /\ rxFrame' = f
    /\ Untouched
    /\ sent' = sent + 1
    /\ UNCHANGED <<rxVariant, rxNow, lastSeq, lastMasterStart, leds, audio,
                   envSeq, envLast, elapsed>>
    /\ UNCHANGED besidesRx

\* nothing (more) to receive: the loop pass goes on to runScheduledSteps
RxIdle ==
    /\ rxPc = "poll"
    /\ rxPc' = "tick"
    /\ UNCHANGED <<rxVariant, rxNow, actions, totalSteps, currentStep,
                   scheduleVolume, lastSeq, lastMasterStart, timeOffset, leds,
                   audio, rxAck, handled, rxFrame, fresh, built, rxExec, envSeq, envLast,
                   sent, elapsed>>
    /\ UNCHANGED besidesRx

\* the due check of runScheduledSteps: (long)(now - actions[currentStep].t) >= 0;
\* a version that compares the two unsigned values, and one that waits for
\* the clock to show exactly the action's time
Due_Unsigned(now, t) == ~ULt(now, t)
Due_OnTheDot(now, t) == now = t

Due(now, t) == SGe0(Sub32(now, t))

\* currentStep++ after executeStep(currentStep); and a version that moves
\* the cursor two places
NextStep_SkipOne(step) == step + 2

NextStep(step) == step + 1

\* runScheduledSteps: at most one due action per pass; then the pass ends
runScheduledSteps ==
    /\ rxPc = "tick"
    /\ IF currentStep >= totalSteps \/ totalSteps = 0
       THEN /\ rxExec' = NoAction
            /\ UNCHANGED <<currentStep, leds, audio>>
       ELSE IF Due(rxNow, actions[currentStep + 1].t)
       THEN /\ leds' = LedsAfter(leds, actions[currentStep + 1])
            /\ audio' = AudioAfter(rxVariant, audio, actions[currentStep + 1],
                                   scheduleVolume)
            /\ currentStep' = NextStep(currentStep)
            /\ rxExec' = actions[currentStep + 1]
       ELSE /\ rxExec' = NoAction
            /\ UNCHANGED <<currentStep, leds, audio>>
    /\ rxPc' = "poll"
    /\ rxAck' = 0 - 1
    /\ handled' = NoHandled
    /\ rxFrame' = <<>>
    /\ UNCHANGED <<rxVariant, actions, totalSteps, scheduleVolume, lastSeq,
                   lastMasterStart, timeOffset, fresh, built, envSeq, envLast, sent>>
    /\ UNCHANGED besidesRx

\* the tick of a pass, and d quanta of time go by before the next pass
RxTick(d) ==
    /\ elapsed + d <= MaxElapsed
    /\ runScheduledSteps
    /\ rxNow' = IF d = 1 THEN Add32(rxNow, QuantumUs) ELSE rxNow
    /\ elapsed' = elapsed + d

\* the tick of a pass, and a long time (2^29 microseconds, about nine
\* minutes) goes by before the next pass; the clock wraps after eight of them
LongUs == <<8192, 0>>
RxTickLong ==
    /\ runScheduledSteps
    /\ rxNow' = Add32(rxNow, LongUs)
    /\ UNCHANGED elapsed

NextRx ==
    \/ \E d \in StartDirectives, target \in RxTargets(rxVariant) : RxNewStart(d, target)
    \/ RxRetransmit
    \/ \E f \in GarbledFrames : RxGarbled(f)
    \/ \E t \in RxTargets(rxVariant), c \in {CMD_FLASH, CMD_FLASH + 1} :
          RxNewControl(EncodeDiscover(envSeq, t)) \/ RxNewControl(EncodeBroadcast(envSeq, c))
    \/ RxSync
    \/ RxIdle
    \/ \E d \in {0, 1} : RxTick(d)

\* ======================================================================
\*                           specifications
\* ======================================================================
\* The discovery controllers: "named" is src/transmitter.ino:1-207 (lines
\* "<id> <cmd>", messages "NN|TO:<id>|CMD:<cmd>"), "list" is
\* src/unnamed/part_005 (lines "<ids> <c>", messages "NN|<ids>|<c>").  Device
\* identifiers are two-digit strings; the number n stands for the string
\* "%02d" of n, and strcmp(a, b) == 0 for a = b.
MAX_DEVICES == 99
LastId == 10 * 10 - 1
DeviceIds == 0..LastId

\* the dedup loop of the window: strcmp(id, discoveredIDs[i]) == 0 for some
\* i < deviceCount; a version that looks at the newest entry only
Found_NewestOnly(list, n, id) == n > 0 /\ list[n] = id

Found(list, n, id) == \E i \in 1..n : list[i] = id

\* deviceCount < MAX_DEVICES, and a version without the limit
HasRoom_NoLimit(n) == n >= 0

HasRoom(n) == n < MAX_DEVICES

NoReply == [id |-> 0 - 1, found |-> FALSE, stored |-> FALSE]

\* the targets of a RESET line: the devices 00 and 01
ResetTargets == {0, 1}
NoReset == [to |-> 0 - 1, listed |-> {}, asked |-> {}]

\* the device's RESET branch (part_008:89-99): a device that listens on the
\* command pipe and is addressed goes back to the broadcast pipe
AfterReset(devs, target) == devs \ {target}

InitReg ==
    /\ regVariant \in {"named", "list"}
    /\ regPc = "idle"
    /\ discoveredIDs = <<>>
    /\ deviceCount = 0
    /\ nextMsgId = 0
    /\ regOps = 0
    /\ firstArrivals = <<>>
    /\ lastReply = NoReply
    /\ regListening = FALSE
    /\ onCommandPipe = {}
    /\ regReset = NoReset

\* sendWithId / sendCommand: nextMsgId = (nextMsgId + 1) % 100, then three
\* transmissions of the same line
sendWithId(id) == (id + 1) % 100

\* loop(), line "devices": prints the registry
RegListDevices ==
    /\ regPc = "idle"
    /\ regOps < MaxRegOps
    /\ regOps' = regOps + 1
    /\ UNCHANGED <<regVariant, regPc, discoveredIDs, deviceCount, nextMsgId,
                   firstArrivals, lastReply, regListening, onCommandPipe, regReset>>
    /\ UNCHANGED besidesReg

\* loop(), line "broadcast": radio.stopListening(), then six commands to
\* ALL ('3','2','1','2','3','0')
RegBroadcast ==
    /\ regPc = "idle"
    /\ regOps < MaxRegOps
    /\ regOps' = regOps + 1
    /\ nextMsgId' = sendWithId(sendWithId(sendWithId(
                        sendWithId(sendWithId(sendWithId(nextMsgId))))))
    /\ regListening' = FALSE
    /\ UNCHANGED <<regVariant, regPc, discoveredIDs, deviceCount,
                   firstArrivals, lastReply, onCommandPipe, regReset>>
    /\ UNCHANGED besidesReg

\* loop(), line "<target> <cmd>": radio.stopListening() and the command is
\* sent; after a RESET the controller runs performDiscovery up to its
\* listening loop: WHO is sent to ALL, radio.startListening(), then
\* deviceCount = 0 and the 5000 ms window opens.  The RESET reaches the
\* devices on the command pipe; WHO goes out on the broadcast pipe.
RegCommand(reset) ==
    /\ regPc = "idle"
    /\ regOps < MaxRegOps
    /\ regOps' = regOps + 1
    /\ IF reset
       THEN /\ nextMsgId' = sendWithId(sendWithId(nextMsgId))
            /\ deviceCount' = 0
            /\ discoveredIDs' = <<>>
            /\ firstArrivals' = <<>>
            /\ lastReply' = NoReply
            /\ regPc' = "window"
            /\ regListening' = TRUE
            /\ \E target \in ResetTargets :
                  /\ onCommandPipe' = AfterReset(onCommandPipe, target)
                  /\ regReset' = [to |-> target,
                                  listed |-> {discoveredIDs[i] : i \in 1..deviceCount},
                                  asked |-> DeviceIds \ AfterReset(onCommandPipe, target)]
       ELSE /\ nextMsgId' = sendWithId(nextMsgId)
            /\ regListening' = FALSE
            /\ UNCHANGED <<regPc, discoveredIDs, deviceCount, firstArrivals, lastReply,
                           onCommandPipe, regReset>>
    /\ UNCHANGED regVariant
    /\ UNCHANGED besidesReg

\* the replies that may arrive next.  Any device may reply at any time and
\* as often as it likes; followed here are the devices 00 and 01 in either
\* order, then 02, 03, ... each first heard after the one before it, and at
\* any moment a repeat of the first or of the newest identifier heard.
NewIds(heard) ==
    IF heard = <<>> THEN {0, 1}
    ELSE IF heard = <<1>> THEN {0}
    ELSE {i \in {Len(heard)} : i \in DeviceIds}
RepliesNow(heard) ==
    NewIds(heard) \cup {heard[i] : i \in {1, Len(heard)} \cap (1..Len(heard))}

\* performDiscovery, one pass of the while loop with radio.available():
\* read the id, look it up, append it if new and there is room.  The reply
\* is that of a device on the broadcast pipe, which then moves to the command
\* pipe (part_008:76-87), or the radio delivers a reply once more.
StoreReply(id) ==
    /\ regPc = "window"
    /\ onCommandPipe' = onCommandPipe \cup {id}
    /\ LET found == Found(discoveredIDs, deviceCount, id)
           store == ~found /\ HasRoom(deviceCount)
       IN  /\ discoveredIDs' = IF store THEN Append(discoveredIDs, id) ELSE discoveredIDs
           /\ deviceCount' = IF store THEN deviceCount + 1 ELSE deviceCount
           /\ lastReply' = [id |-> id, found |-> found, stored |-> store]
    /\ firstArrivals' = IF \E i \in 1..Len(firstArrivals) : firstArrivals[i] = id
                        THEN firstArrivals ELSE Append(firstArrivals, id)
    /\ UNCHANGED <<regVariant, regPc, nextMsgId, regOps, regListening, regReset>>
    /\ UNCHANGED besidesReg

RegReply(id) ==
    /\ id \in RepliesNow(firstArrivals)
    /\ id \notin onCommandPipe \/ \E i \in 1..Len(firstArrivals) : firstArrivals[i] = id
    /\ StoreReply(id)

\* performDiscovery, millis() - start >= 5000: the loop ends,
\* radio.stopListening(), the handler returns ("list" prints the registry
\* first)
RegWindowClose ==
    /\ regPc = "window"
    /\ regPc' = "idle"
    /\ regListening' = FALSE
    /\ UNCHANGED <<regVariant, discoveredIDs, deviceCount, nextMsgId, regOps,
                   firstArrivals, lastReply, onCommandPipe, regReset>>
    /\ UNCHANGED besidesReg

\* ---- the WHO round with the devices' reply delay
\* blinkLedFor("ALL", 500 * idNumber, 3) before the reply (part_008:79-80,
\* 143-162): segment = durationMs / (blinkCount * 2), then blinkCount times
\* delay(segment) twice
BlinkMs(id) == 3 * 2 * ((500 * id) \div (3 * 2))

\* sendCommand sends WHO three times with delay(5) after each; then delay(10),
\* startListening() and start = millis() (part_001:105-111, 149-154): the
\* window opens this long after the first WHO went out
WhoLeadMs == 3 * 5 + 10
WindowMs == 5000

\* the reply leaves the device while millis() - start < 5000 still holds
InTime(id) == BlinkMs(id) - WhoLeadMs < WindowMs

\* the devices in the field; device 00 replies with no delay at all, while
\* the controller is still sending, and is not among them
WhoFleet == {1, 2, 10, 11, 20}

\* the devices that heard the WHO of this round and have yet to reply
Pending == (WhoFleet \cap regReset.asked) \ onCommandPipe

\* a device's reply arrives in the window, after those of the devices with
\* a shorter delay
WhoReply(id) ==
    /\ id \in Pending
    /\ InTime(id)
    /\ \A j \in Pending : BlinkMs(j) >= BlinkMs(id)
    /\ StoreReply(id)

\* the window closes when every reply that comes in time has arrived
WhoWindowClose ==
    /\ \A j \in Pending : ~InTime(j)
    /\ RegWindowClose

\* a device's delay ends after the window: it sends its identifier, which
\* nobody reads, and goes to the command pipe (part_008:82-87)
WhoLateReply(id) ==
    /\ regPc = "idle"
    /\ id \in Pending
    /\ ~InTime(id)
    /\ onCommandPipe' = onCommandPipe \cup {id}
    /\ UNCHANGED <<regVariant, regPc, discoveredIDs, deviceCount, nextMsgId, regOps,
                   firstArrivals, lastReply, regListening, regReset>>
    /\ UNCHANGED besidesReg

NextWho ==
    \/ RegListDevices
    \/ \E reset \in BOOLEAN : RegCommand(reset)
    \/ \E id \in WhoFleet : WhoReply(id)
    \/ WhoWindowClose
    \/ \E id \in WhoFleet : WhoLateReply(id)

NextReg ==
    \/ RegListDevices
    \/ RegBroadcast
    \/ \E reset \in BOOLEAN : RegCommand(reset)
    \/ \E id \in DeviceIds : RegReply(id)
    \/ RegWindowClose

\* ======================================================================
\* The discovery devices: "hist" is src/unnamed/part_008 (messages
\* "NN|TO:<id>|CMD:<cmd>", a history of message ids), "plain" is
\* src/unnamed/part_007:1-176 (messages "WHO" and "TO:<id>|CMD:<cmd>").
\* A message is the record of its fields: id is the two-digit message id
\* (-1 if the line has none), to and cmd the texts after "TO:" and "CMD:"
\* (to = "" for the bare line "WHO").
MyId == "02"
OtherId == "05"
MSG_HISTORY_SIZE == 20

Msg(id, to, cmd) == [id |-> id, to |-> to, cmd |-> cmd]
NoMsg == Msg(0 - 1, "", "")

NodeTargets == {"ALL", MyId, OtherId}
NodeCmds == {"WHO", "RESET", "1"}

\* the messages the device's controller can put on the air with message id
\* id: part_001 / transmitter.ino prefix every line with the id, part_004
\* sends "WHO" bare and commands without an id
MsgsOnAir(v, id) ==
    IF v = "hist" THEN {Msg(id, t, c) : t \in NodeTargets, c \in NodeCmds}
    ELSE {Msg(0 - 1, "", "WHO")}
         \cup {Msg(0 - 1, t, c) : t \in NodeTargets, c \in NodeCmds}

\* logical messages sent since the last one this device read and before the
\* next one it reads: none, or so many that the id counter comes round again
MissedChoices == {0, 99}

AllLow == [red |-> FALSE, orange |-> FALSE, green |-> FALSE]

InitNode ==
    /\ nodeVariant \in {"hist", "plain"}
    /\ listeningToCommandPipe = FALSE
    /\ readingPipe = "BCAST"
    /\ msgHistory = [i \in 1..MSG_HISTORY_SIZE |-> 0 - 1]
    /\ historyIndex = 0
    /\ nodeLeds = AllLow
    /\ airMsgId = 0
    /\ airMsg = NoMsg
    /\ nodeIn = [msg |-> NoMsg, dup |-> FALSE, replied |-> FALSE]
    /\ nodeHeard = 0
    /\ airNth = 0
    /\ nodeFill = 0
    /\ nodeRecorded = <<>>

\* seenBefore: strcmp(msgHistory[i], id) == 0 for some slot; and a version
\* whose loop stops one slot short
seenBefore_OneShort(hist, id) == \E i \in 1..(MSG_HISTORY_SIZE - 1) : hist[i] = id

seenBefore(hist, id) == \E i \in 1..MSG_HISTORY_SIZE : hist[i] = id

\* recordMsgId: the slot at historyIndex is overwritten
recordMsgId(hist, at, id) == [hist EXCEPT ![at + 1] = id]

\* the last conjunct of the WHO test, and a version that answers always
MayAnswerWho_Always(listening) == listening \in BOOLEAN

MayAnswerWho(listening) == ~listening

\* the WHO test: hist "TO:ALL" and "CMD:WHO", plain the bare line "WHO"
IsWho(v, m) ==
    IF v = "hist" THEN m.to = "ALL" /\ m.cmd = "WHO"
                  ELSE m.to = "" /\ m.cmd = "WHO"

\* the test of the command branch: hist "toValue is ALL or myID"; plain
\* "the line starts with TO:ALL or contains myID" and has a "CMD:" part
IsForMe(v, m) == m.to = "ALL" \/ m.to = MyId

\* digitalWrite of the command branch after allLedsOff()
LedsOnCmd(cmd) ==
    IF cmd = "1" THEN [AllLow EXCEPT !.red = TRUE]
    ELSE IF cmd = "2" THEN [AllLow EXCEPT !.orange = TRUE]
    ELSE IF cmd = "3" THEN [AllLow EXCEPT !.green = TRUE]
    ELSE AllLow

\* loop() from the duplicate test on: the WHO branch blinks, writes myID on
\* the broadcast pipe and moves reading pipe 1 to the command pipe; the
\* command branch switches the LEDs and, for RESET, moves the pipe back
NodeHandle(m) ==
    IF IsWho(nodeVariant, m) /\ MayAnswerWho(listeningToCommandPipe)
    THEN /\ nodeLeds' = AllLow
         /\ readingPipe' = "CMDCH"
         /\ listeningToCommandPipe' = TRUE
         /\ nodeIn' = [msg |-> m, dup |-> FALSE, replied |-> TRUE]
    ELSE IF IsForMe(nodeVariant, m)
    THEN /\ nodeLeds' = LedsOnCmd(m.cmd)
         /\ IF m.cmd = "RESET"
            THEN readingPipe' = "BCAST" /\ listeningToCommandPipe' = FALSE
            ELSE UNCHANGED <<readingPipe, listeningToCommandPipe>>
         /\ nodeIn' = [msg |-> m, dup |-> FALSE, replied |-> FALSE]
    ELSE /\ UNCHANGED <<nodeLeds, readingPipe, listeningToCommandPipe>>
         /\ nodeIn' = [msg |-> m, dup |-> FALSE, replied |-> FALSE]

\* loop() with radio.available(): one message is read.  hist drops a
\* message whose id is in msgHistory and records the id otherwise.
NodeLoop(m) ==
    /\ nodeHeard' = nodeHeard + 1
    /\ airMsg' = m
    /\ IF nodeVariant = "hist"
       THEN IF seenBefore(msgHistory, m.id)
            THEN /\ nodeIn' = [msg |-> m, dup |-> TRUE, replied |-> FALSE]
                 /\ UNCHANGED <<msgHistory, historyIndex, nodeLeds, readingPipe,
                                listeningToCommandPipe, nodeRecorded>>
            ELSE /\ msgHistory' = recordMsgId(msgHistory, historyIndex, m.id)
                 /\ historyIndex' = (historyIndex + 1) % MSG_HISTORY_SIZE
                 /\ nodeRecorded' = Append(nodeRecorded, m.id)
                 /\ NodeHandle(m)
       ELSE /\ NodeHandle(m)
            /\ UNCHANGED <<msgHistory, historyIndex, nodeRecorded>>
    /\ UNCHANGED nodeVariant
    /\ UNCHANGED besidesNode

\* the controller sends its next logical message (after missed others the
\* device did not read) on the pipe the device listens to, and the device
\* reads its first transmission
NodeNewMsg(m, missed) ==
    /\ nodeHeard - nodeFill < MaxNodeMsgs
    /\ missed \in MissedChoices
    /\ airMsgId' = (airMsgId + 1 + missed) % 100
    /\ m \in MsgsOnAir(nodeVariant, airMsgId')
    /\ airNth' = 1
    /\ UNCHANGED nodeFill
    /\ NodeLoop(m)

\* the device reads another of the three transmissions of the same logical
\* message (sendCommand / sendWithId: for (int i = 0; i < 3; i++))
NodeRetransmit ==
    /\ nodeHeard - nodeFill < MaxNodeMsgs
    /\ airMsg # NoMsg
    /\ airNth < 3
    /\ airNth' = airNth + 1
    /\ UNCHANGED <<airMsgId, nodeFill>>
    /\ NodeLoop(airMsg)

\* the session opens with a run of commands for another device: the device
\* reads the first transmission of each
NodeOtherTraffic ==
    /\ nodeFill < MaxFill
    /\ nodeHeard = nodeFill
    /\ airMsgId' = (airMsgId + 1) % 100
    /\ airNth' = 1
    /\ nodeFill' = nodeFill + 1
    /\ NodeLoop(Msg(IF nodeVariant = "hist" THEN airMsgId' ELSE 0 - 1, OtherId, "1"))

NextNode ==
    \/ NodeOtherTraffic
    \/ \E missed \in MissedChoices :
          \E m \in MsgsOnAir(nodeVariant, (airMsgId + 1 + missed) % 100) :
             NodeNewMsg(m, missed)
    \/ NodeRetransmit

\* ======================================================================
\* Each part of the system is explored on its own; the other parts stay in
\* one boot state.
IdleReg == InitReg /\ regVariant = "named"
IdleNode == InitNode /\ nodeVariant = "hist"
IdleTx == InitTx /\ txVariant = "rfm95" /\ seqId = 1
IdleRx == InitRx /\ rxVariant = "nrf24"
IdleCodec == codec = [kind |-> "none", pkt |-> <<>>, bytes |-> <<>>, back |-> <<>>, at |-> "idle"]

\* the controller
Init == InitTx /\ IdleRx /\ IdleCodec /\ IdleReg /\ IdleNode

Next == NextTx

Spec == Init /\ [][Next]_vars

\* the controller, handling START commands of four and five entries
NextLong ==
    \/ \E b \in LongBatches : CmdStart(b)
    \/ BatchStep
    \/ \E ok \in BOOLEAN, ready \in BOOLEAN : NrfBatchStep(ok, ready)
    \/ SR_Transmit
    \/ \E f \in WindowFrames(txVariant, call.target, call.seq) : SR_Recv(f)
    \/ SR_Timeout

SpecLong == Init /\ [][NextLong]_vars

\* the device, fed by an arbitrary controller
InitDevice == InitRx /\ IdleTx /\ IdleCodec /\ IdleReg /\ IdleNode

SpecRx == InitDevice /\ [][NextRx]_vars

\* the device with the texts of its SYNC messages
NextSync ==
    \/ \E f \in SyncFrames(rxNow) : RxSyncText(f)
    \/ \E d \in StartDirectives, target \in RxTargets(rxVariant) : RxNewStart(d, target)
    \/ \E d \in StartDirectives : RxBatchStart(d)
    \/ RxRetransmit
    \/ RxIdle
    \/ \E d \in {0, 1} : RxTick(d)

\* the explicit-SYNC device of Receiver.ino, SYNC messages given as text
\* the device alone, its loop running on without end; the controller sends
\* one START, at any time, and may repeat it at any time
NextRun ==
    \/ \E d \in StartDirectives, target \in RxTargets(rxVariant) :
          sent = 0 /\ RxNewStart(d, target)
    \/ RxRetransmit
    \/ RxIdle
    \/ RxTickLong

\* loop() is called again and again, and micros() goes on counting
SpecRun ==
    InitDevice /\ [][NextRun]_vars /\ WF_vars(RxIdle) /\ SF_vars(RxTickLong)

\* the RFM95 device and the attempts of sendReliable that reach it
NextDeliver ==
    \/ \E d \in StartDirectives, target \in RxTargets(rxVariant) : RxNewStart(d, target)
    \/ \E d \in StartDirectives, target \in RxTargets(rxVariant) : RxMissedStart(d, target)
    \/ RxRetransmit
    \/ RxIdle
    \/ \E d \in {0, 1} : RxTick(d)

InitDeliver == InitRx /\ rxVariant = "rfm95" /\ IdleTx /\ IdleCodec /\ IdleReg /\ IdleNode

SpecDeliver == InitDeliver /\ [][NextDeliver]_vars

\* the device receiving STARTs with any step count
NextSteps ==
    \/ \E d \in StepCountDirectives, target \in RxTargets(rxVariant) : RxNewStart(d, target)
    \/ RxRetransmit
    \/ RxIdle
    \/ \E d \in {0, 1} : RxTick(d)

SpecSteps == InitDevice /\ [][NextSteps]_vars

InitSync == InitRx /\ rxVariant = "nrf24" /\ IdleTx /\ IdleCodec /\ IdleReg /\ IdleNode

SpecSync == InitSync /\ [][NextSync]_vars

\* ---------------------------------------------------------- packet codec
\* field values of the packets put through the codec: the ends and the byte
\* boundaries of each field's range
CodecSeqs == {0, 1, 255, 256, U16 - 1}
CodecIds == {0, 2, 255}
CodecClocks == {<<0, 0>>, <<1, 258>>, <<U16 - 1, U16 - 1>>}
CodecSteps == {<<0, 0, 0, 0>>, <<10, 20, 30, 40>>, <<256, 255, U16 - 1, 1>>}

CodecPackets ==
    { [kind |-> "START",
       pkt |-> [type |-> MSG_START_V1, seq |-> q, targetId |-> i,
                currentClock |-> c, masterStart |-> m, volume |-> v,
                steps |-> n, t_ds |-> t]] :
         q \in CodecSeqs, i \in CodecIds, c \in CodecClocks, m \in CodecClocks,
         v \in {0, 30}, n \in {3, 4}, t \in CodecSteps }
    \cup { [kind |-> "DISCOVER",
            pkt |-> [type |-> MSG_DISCOVER_V1, seq |-> q, targetId |-> i]] :
              q \in CodecSeqs, i \in CodecIds }
    \cup { [kind |-> "BROADCAST",
            pkt |-> [type |-> MSG_BROADCAST_V1, seq |-> q, command |-> c]] :
              q \in CodecSeqs, c \in {CMD_FLASH, 255} }
    \cup { [kind |-> "READY", pkt |-> [type |-> MSG_READY_V1, seq |-> q]] :
              q \in CodecSeqs }

\* the sender's side: the bytes of the packed struct that go to the radio
Encode(kind, pkt) ==
    IF kind = "START" THEN EncodeStart(pkt)
    ELSE IF kind = "DISCOVER" THEN EncodeDiscover(pkt.seq, pkt.targetId)
    ELSE IF kind = "BROADCAST" THEN EncodeBroadcast(pkt.seq, pkt.command)
    ELSE EncodeReadyAck(pkt.seq)

\* the receiver's side: memcpy of the buffer into the struct
Decode(kind, f) ==
    IF kind = "START" THEN DecodeStart(f)
    ELSE IF kind = "DISCOVER" THEN DecodeDiscover(f)
    ELSE IF kind = "BROADCAST" THEN DecodeBroadcast(f)
    ELSE DecodeReadyAck(f)

\* step offsets as the operator types them, in hundredths of a second:
\* 0.00 up to MaxTypedCs / 100, and the last values whose decisecond value
\* fits the 16-bit wire field
LastTypedCs == 10 * U16 - 11
TypedOffsets == (0..MaxTypedCs) \cup ((LastTypedCs - 60)..LastTypedCs)

\* START directives handed to the list builders: the step values in
\* hundredths of a second (all multiples of a quarter second, which the
\* float conversions keep exact), the local target start on either side of
\* the rollover; "binary" is the StartPacketV1 handler, "st2" the text one
ListSteps ==
    { <<100, 200, 300, 400>>, <<50, 150, 250, 350>>, <<0, 0, 0, 0>>,
      <<200, 100, 300, 0>>, <<300000, 100, 200, 0>> }
ListBases == { FromNat(5000000), Sub32(<<0, 0>>, FromNat(300000)) }
ListInputs ==
    { [variant |-> v, steps |-> n, t_cs |-> t, base |-> b] :
         v \in {"binary", "st2"}, n \in {3, 4}, t \in ListSteps, b \in ListBases }

InitCodec ==
    \/ \E d \in ListInputs :
          codec = [kind |-> "LIST", pkt |-> d, bytes |-> <<>>, back |-> <<>>,
                   at |-> "directive"]
    \/ \E p \in CodecPackets :
          codec = [kind |-> p.kind, pkt |-> p.pkt, bytes |-> <<>>, back |-> <<>>,
                   at |-> "packet"]
    \/ \E cs \in TypedOffsets :
          codec = [kind |-> "OFFSET", pkt |-> [cs |-> cs], bytes |-> <<>>,
                   back |-> <<>>, at |-> "typed"]

CodecEncode ==
    /\ codec.at = "packet"
    /\ codec' = [codec EXCEPT !.bytes = Encode(codec.kind, codec.pkt), !.at = "wire"]
    /\ UNCHANGED besidesCodec

CodecDecode ==
    /\ codec.at = "wire"
    /\ codec' = [codec EXCEPT !.back = Decode(codec.kind, codec.bytes), !.at = "decoded"]
    /\ UNCHANGED besidesCodec

\* the START handlers' conversion of one typed step value to deciseconds
CodecConvert ==
    /\ codec.at = "typed"
    /\ codec' = [codec EXCEPT !.back = ToDs(codec.pkt.cs), !.at = "converted"]
    /\ UNCHANGED besidesCodec

\* the START handlers' list building for one directive
CodecBuild ==
    /\ codec.at = "directive"
    /\ codec' = [codec EXCEPT
                   !.back = IF codec.pkt.variant = "st2"
                            THEN BuildActionsST2(codec.pkt.steps, codec.pkt.t_cs,
                                                 codec.pkt.base)
                            ELSE BuildActions(
                                   [steps |-> codec.pkt.steps,
                                    t_ds |-> [i \in 1..4 |-> codec.pkt.t_cs[i] \div 10]],
                                   codec.pkt.base),
                   !.at = "built"]
    /\ UNCHANGED besidesCodec

NextCodec == CodecEncode \/ CodecDecode \/ CodecConvert \/ CodecBuild

InitCodecOnly == InitCodec /\ IdleTx /\ IdleRx /\ IdleReg /\ IdleNode

SpecCodec == InitCodecOnly /\ [][NextCodec]_vars

\* the discovery controller, with arbitrary devices replying
InitRegOnly == InitReg /\ IdleTx /\ IdleRx /\ IdleCodec /\ IdleNode

SpecReg == InitRegOnly /\ [][NextReg]_vars

\* the discovery controller and a field of devices that answer WHO
SpecWho == InitRegOnly /\ [][NextWho]_vars

\* the discovery device, with an arbitrary controller sending
InitNodeOnly == InitNode /\ IdleTx /\ IdleRx /\ IdleCodec /\ IdleReg

SpecNode == InitNodeOnly /\ [][NextNode]_vars

\* the controller with its handlers always making progress: a handler that
\* has been entered keeps running (loops iterate, windows time out)
TxProgress ==
    \/ SweepStep
    \/ BatchStep
    \/ \E ok \in BOOLEAN, ready \in BOOLEAN : NrfBatchStep(ok, ready)
    \/ SR_Transmit
    \/ SR_Timeout

SpecFair == Init /\ [][Next]_vars /\ WF_vars(TxProgress)

\* ======================================================================
\*                    properties of the controller
\* ======================================================================
UsesSendReliable == txVariant \in {"rfm95", "poll"}

\* C1: one sendReliable call transmits at most RETRY_COUNT times, and it
\* returns false exactly when no matching acknowledgment was received in any
\* of its windows.
C1_RetryBoundAndFailedIffNoAck ==
    UsesSendReliable =>
        /\ call.tx <= RETRY_COUNT(txVariant)
        /\ call.result # "none" => (call.result = "failed" <=> ~call.matched)

\* tag and seq of a received acknowledgment, read at the offsets of the
\* variant's acknowledgment layout
AckTagOk(v, f) ==
    IF v = "rfm95" THEN ByteAt(f, 1) = MSG_READY_V1 ELSE PayloadIs(f, StrACK)
AckSeqOf(v, f) == IF v = "rfm95" THEN U16At(f, 2) ELSE U16At(f, 3)

\* C2: sendReliable returns true only on a frame that has the acknowledgment
\* tag and the seq of the packet being sent.
C2_AckedOnlyOnOwnSeq ==
    (UsesSendReliable /\ call.result = "acked") =>
        /\ AckTagOk(txVariant, call.acc)
        /\ AckSeqOf(txVariant, call.acc) = call.seq

\* C3: when the matching acknowledgment arrives in attempt k, the call
\* returns true and has made exactly k transmissions.
C3_AckedAtAttemptK ==
    (UsesSendReliable /\ call.matchedAt > 0) =>
        /\ call.result = "acked"
        /\ call.attempt = call.matchedAt
        /\ call.tx = call.matchedAt

C3_Witness ==
    /\ txVariant = "rfm95"
    /\ call.matchedAt = 2
    /\ call.tx = 2
    /\ call.result = "acked"

\* the targets a command must reach: one per valid entry, in order, or every
\* device of the sweep
ExpectedTargets(v, b) ==
    LET ok == SelectSeq(b, LAMBDA e : EntryValid(v, e))
    IN  [i \in 1..Len(ok) |-> ok[i].id]

SweepTargets(v) == [i \in 1..NUM_SLAVES |-> FirstSlave(v) + i - 1]

C4_EveryEntryReached ==
    /\ (cmdKind = "START" /\ txPc = "idle")
           => cmdSent = ExpectedTargets(txVariant, batch)
    /\ (cmdKind = "START" /\ txPc = "batch")
           => cmdSent = ExpectedTargets(txVariant, SubSeq(batch, 1, idx - 1))
    /\ (cmdKind \in {"DISCOVER", "CHECK", "SYNC", "FLASH"} /\ txPc = "idle")
           => cmdSent = SweepTargets(txVariant)
    /\ (cmdKind \in {"DISCOVER", "CHECK", "SYNC", "FLASH"} /\ txPc = "sweep")
           => cmdSent = SubSeq(SweepTargets(txVariant), 1, idx - FirstSlave(txVariant))

\* C4: a failed sendReliable does not end the command: every valid entry of
\* the batch (every device of the sweep) is still transmitted, in order, and
\* the handler reaches its end.
C4_FailureDoesNotStopBatch ==
    /\ []C4_EveryEntryReached
    /\ (cmdFailed > 0) ~> (txPc = "idle")

C4_Witness ==
    /\ UsesSendReliable
    /\ cmdKind = "START"
    /\ txPc = "idle"
    /\ Len(cmdSent) = 2
    /\ cmdFailed = 2

\* C10: every logical transmission has a seq strictly greater than every
\* seq used before it.
C10_SeqStrictlyIncreasing ==
    \A i \in DOMAIN usedSeqs : \A j \in DOMAIN usedSeqs :
        i < j => usedSeqs[i] < usedSeqs[j]

\* ======================================================================
\*                      properties of the device
\* ======================================================================
\* C5: taking in a START with the (seq, masterStart) of the last processed
\* START leaves the action list, the cursor and the schedule volume as they
\* were.
C5_RepeatedStartChangesNothing ==
    [][(rxPc = "poll" /\ handled'.kind = "START" /\ handled'.dup)
          => UNCHANGED <<actions, totalSteps, currentStep, scheduleVolume>>]_vars

\* C6: every START addressed to the device, first or repeated, makes it
\* produce a READY acknowledgment with that START's seq.
C6_EveryStartAcked ==
    (handled.kind = "START" /\ handled.forMe) => rxAck = handled.pkt.seq

\* the actions a START stands for, given the base time of its schedule
Derived(pkt, base) ==
    LET n == IF pkt.steps < 3 THEN pkt.steps ELSE 3
        ledAt(i) == Add32(base, ds_to_us(pkt.t_ds[i]))
    IN  UNION { { [t |-> ledAt(i), type |-> LedType(i - 1), arg |-> 0],
                  [t |-> Sub32(ledAt(i), LeadUs), type |-> ACT_PLAY,
                   arg |-> TRACK_FOR_STEP[i]],
                  [t |-> base, type |-> ACT_PLAY, arg |-> TRACK_FOR_STEP[i]] }
                : i \in 1..n }
        \cup (IF pkt.steps >= 4
              THEN {[t |-> Add32(base, ds_to_us(pkt.t_ds[4])), type |-> ACT_ALL_OFF,
                     arg |-> 0]}
              ELSE {})

\* C7: after a START that is addressed to the device and is no repeat, the
\* list holds only actions of that START and the cursor is at its first
\* slot; whatever the scheduler executes from then on is an action of that
\* START.
C7_FreshStartSupersedes ==
    /\ (handled.kind = "START" /\ handled.forMe /\ ~handled.dup) =>
          /\ \A i \in 1..Len(actions) :
                actions[i] \in Derived(handled.pkt,
                                       StartBase(rxVariant, handled.pkt, rxNow, timeOffset))
          /\ totalSteps = Len(actions)
          /\ currentStep = 0
    /\ rxExec # NoAction =>
          /\ built.pkt = fresh
          /\ rxExec \in Derived(fresh, built.base)

\* a second START has replaced a schedule of which the red step had run
C7_Witness ==
    /\ handled.kind = "START" /\ handled.forMe /\ ~handled.dup
    /\ leds.red
    /\ currentStep = 0
    /\ totalSteps >= 6
    /\ built.pkt = handled.pkt

\* C8: at most one of the red, orange and green outputs is HIGH.
C8_AtMostOneLedHigh ==
    /\ ~(leds.red /\ leds.orange)
    /\ ~(leds.red /\ leds.green)
    /\ ~(leds.orange /\ leds.green)

\* C9: the action list is in time order (no action later than its
\* successor), and each step's PlayAudio sits before the step's SetLed with
\* a time not later than it.
C9_ListOrderedPlayBeforeLed ==
    /\ \A i \in 1..(Len(actions) - 1) :
          SGe0(Sub32(actions[i + 1].t, actions[i].t))
    /\ \A i \in 1..Len(actions) : \A j \in 1..Len(actions) :
          (actions[i].type = ACT_PLAY /\ actions[j].type = LedType(actions[i].arg - 1))
             => (i < j /\ SGe0(Sub32(actions[j].t, actions[i].t)))

\* a buffer that is a packet of one of the three kinds: the kind's tag in
\* byte 0 and exactly the kind's layout size
WellFormedAs(kind, f) ==
    \/ kind = "DISCOVER" /\ ByteAt(f, 1) = MSG_DISCOVER_V1 /\ Len(f) = DISCOVER_LEN
    \/ kind = "START" /\ ByteAt(f, 1) = MSG_START_V1 /\ Len(f) = START_LEN
    \/ kind = "BROADCAST" /\ ByteAt(f, 1) = MSG_BROADCAST_V1 /\ Len(f) = BROADCAST_LEN

PacketKinds == {"DISCOVER", "START", "BROADCAST"}

\* C11: the handler of a packet kind runs only on a buffer with that kind's
\* tag in byte 0 and exactly that kind's length; any other buffer changes no
\* device state and produces no acknowledgment.
C11_HandlerOnlyOnTagAndLength ==
    [][(rxPc = "poll" /\ rxFrame' # <<>>) =>
          /\ handled'.kind \in PacketKinds => WellFormedAs(handled'.kind, rxFrame')
          /\ (\A k \in PacketKinds : ~WellFormedAs(k, rxFrame')) =>
                /\ UNCHANGED <<actions, totalSteps, currentStep, scheduleVolume,
                               lastSeq, lastMasterStart, timeOffset, leds, audio>>
                /\ rxAck' = 0 - 1]_vars

\* ======================================================================
\*                     properties of the packet codec
\* ======================================================================
LayoutSize(kind) ==
    IF kind = "START" THEN 22
    ELSE IF kind = "READY" THEN 3
    ELSE 4

C13_OneMasterStartPerBatch ==
    \A i \in 1..Len(cmdPkts) : \A j \in 1..Len(cmdPkts) :
        cmdPkts[i].pkt.masterStart = cmdPkts[j].pkt.masterStart

\* the same, for the controllers that compute masterStartTime before the
\* entry loop
C13_OneMasterStart_PollNrf ==
    txVariant # "rfm95" => C13_OneMasterStartPerBatch


\* the entries of the batch whose packet was built, in input order
ValidEntries(v, b) == SelectSeq(b, LAMBDA e : EntryValid(v, e))

\* masterStart plus the third offset of entry e, as typed
GreenAt(ms, e) == Add32(ms, FromNat(e.cs[3] * 10000))

\* C14: when a START command with at least one valid directive has been
\* handled, exactly one STARTTIMER was printed, at a controller clock not
\* before masterStart plus the smallest third offset of its valid
\* directives; a command with no valid directive prints none.  (The marker
\* is printed by the handler's last step, after every entry was sent.)
C14_MarkerOnceAtEarliestGreen ==
    (cmdKind = "START" /\ txPc = "idle") =>
        LET valid == ValidEntries(txVariant, batch)
        IN  IF valid = <<>> THEN markers = <<>>
            ELSE /\ Len(markers) = 1
                 /\ Len(cmdPkts) = Len(valid)
                 /\ \E k \in 1..Len(valid) :
                       /\ valid[k].nsteps >= 3
                       /\ SGe0(Sub32(markers[1],
                                     GreenAt(cmdPkts[k].pkt.masterStart, valid[k])))

\* the same, for the controllers whose handler prints the marker and reads
\* the third offset as a real number
C14_Marker_PollNrf ==
    txVariant \in {"poll", "nrf24"} => C14_MarkerOnceAtEarliestGreen


\* what a START packet tells its device: the offsets in deciseconds and the
\* volume
DirectiveOf(c) ==
    [to |-> c.to, offsets |-> SubSeq(c.pkt.t_ds, 1, c.pkt.steps), volume |-> c.pkt.volume]

\* C15: the batch "00{1,2,3}@20;01{1.5,2.5,3.5}@15" yields exactly two START
\* directives: device 0 with offsets [10,20,30] and volume 20, then device 1
\* with offsets [15,25,35] and volume 15.
C15_ExampleBatch ==
    (cmdKind = "START" /\ txPc = "idle" /\ txVariant # "text"
        /\ batch = <<EntryDev0, EntryDev1>>) =>
        /\ Len(cmdPkts) = 2
        /\ DirectiveOf(cmdPkts[1]) = [to |-> 0, offsets |-> <<10, 20, 30>>, volume |-> 20]
        /\ DirectiveOf(cmdPkts[2]) = [to |-> 1, offsets |-> <<15, 25, 35>>, volume |-> 15]

\* the same, for the controllers whose devices are numbered from 0
C15_ExampleBatch_PollNrf ==
    txVariant # "rfm95" => C15_ExampleBatch


\* an entry with both braces, an id in the controller's range and at least
\* three step offsets
WellFormedEntry(v, e) == e.braces /\ IdInRange(v, e.id) /\ Len(e.cs) >= 3

\* the ids of the well-formed entries among the first n of the batch
TargetsUpTo(v, b, n) ==
    LET sel == SelectSeq(SubSeq(b, 1, n), LAMBDA e : WellFormedEntry(v, e))
    IN  [k \in 1..Len(sel) |-> sel[k].id]

\* C16: while a START command is handled the targets transmitted to are
\* exactly the well-formed entries passed so far, in input order: an entry
\* with missing braces, an id out of range or fewer than three offsets is
\* never transmitted, and every well-formed entry is.
C16_InvalidSkippedOthersSent ==
    cmdKind = "START" =>
        /\ txPc = "idle" => cmdSent = TargetsUpTo(txVariant, batch, Len(batch))
        /\ \E n \in 0..Len(batch) : cmdSent = TargetsUpTo(txVariant, batch, n)

\* the same, for the controllers that check the number of offsets
C16_Skipped_Binary ==
    txVariant # "text" => C16_InvalidSkippedOthersSent


\* C17 as stated: the registry holds each distinct identifier that replied
\* in the window exactly once, in order of first arrival.
C17_EachDistinctIdOnceInArrivalOrder ==
    discoveredIDs = firstArrivals

Min(a, b) == IF a < b THEN a ELSE b

\* C17, with the registry's capacity: the registry holds no identifier
\* twice and is the first MAX_DEVICES distinct identifiers that replied in
\* the window, in order of first arrival; so two distinct devices that both
\* reply both appear unless MAX_DEVICES others were heard before them.
C17_DistinctOnceUpToCapacity ==
    /\ deviceCount = Len(discoveredIDs)
    /\ \A i \in 1..deviceCount : \A j \in 1..deviceCount :
          discoveredIDs[i] = discoveredIDs[j] => i = j
    /\ discoveredIDs = SubSeq(firstArrivals, 1, Min(Len(firstArrivals), MAX_DEVICES))

\* device 01 replied, then device 00, then device 01 again
C17_Witness ==
    /\ discoveredIDs = <<1, 0>>
    /\ lastReply = [id |-> 1, found |-> TRUE, stored |-> FALSE]


\* C18: the registry (list and count) changes only inside a discovery round:
\* a step that changes it either opens a round's window and empties it, or
\* is a pass of the window loop that appends one identifier; it never holds
\* more than MAX_DEVICES entries.
C18_RegistryChangesOnlyInRound ==
    [][/\ deviceCount' <= MAX_DEVICES
       /\ Len(discoveredIDs') <= MAX_DEVICES
       /\ <<discoveredIDs, deviceCount>>' # <<discoveredIDs, deviceCount>> =>
            \/ /\ regPc = "idle" /\ regPc' = "window"
               /\ discoveredIDs' = <<>> /\ deviceCount' = 0
            \/ /\ regPc = "window" /\ regPc' = "window"
               /\ deviceCount' = deviceCount + 1
               /\ \E id \in DeviceIds : discoveredIDs' = Append(discoveredIDs, id)]_vars

\* the registry is full, one more new identifier was read and not stored,
\* and the window has closed
C18_Witness ==
    /\ regPc = "idle"
    /\ deviceCount = MAX_DEVICES
    /\ lastReply.id >= 0 /\ ~lastReply.found /\ ~lastReply.stored


\* C19: a loop pass sends a WHO reply only if the device was Unregistered
\* (reading the discovery pipe) and read a WHO; after it the device is
\* Registered and reads the command pipe; and a Registered device becomes
\* Unregistered only by a pass that read a RESET, so no WHO is answered
\* between a reply and the next RESET.
C19_WhoAnsweredOnlyUnregistered ==
    [][/\ nodeIn'.replied =>
            /\ ~listeningToCommandPipe /\ readingPipe = "BCAST"
            /\ nodeIn'.msg.cmd = "WHO"
            /\ listeningToCommandPipe' /\ readingPipe' = "CMDCH"
       /\ (listeningToCommandPipe /\ ~listeningToCommandPipe') =>
            nodeIn'.msg.cmd = "RESET"
       /\ listeningToCommandPipe' <=> readingPipe' = "CMDCH"]_vars

\* a Registered device has just read a WHO to ALL it had not seen before,
\* and did not reply
C19_Witness ==
    /\ listeningToCommandPipe
    /\ nodeIn.msg.to = "ALL" /\ nodeIn.msg.cmd = "WHO"
    /\ ~nodeIn.dup /\ ~nodeIn.replied

\* C20: a loop pass that reads a RESET addressed to ALL or to myID leaves
\* the device Unregistered and reading the discovery pipe, whichever state
\* it was in; one that reads a RESET addressed to another id changes
\* neither.
C20_ResetReturnsToDiscovery ==
    [][(nodeHeard' # nodeHeard /\ nodeIn'.msg.cmd = "RESET") =>
          /\ nodeIn'.msg.to \in {"ALL", MyId} =>
                ~listeningToCommandPipe' /\ readingPipe' = "BCAST"
          /\ nodeIn'.msg.to = OtherId =>
                UNCHANGED <<listeningToCommandPipe, readingPipe>>]_vars

\* the same, for the device that keeps no message history
C20_Reset_Plain ==
    [][nodeVariant = "plain" =>
          ((nodeHeard' # nodeHeard /\ nodeIn'.msg.cmd = "RESET") =>
              /\ nodeIn'.msg.to \in {"ALL", MyId} =>
                    ~listeningToCommandPipe' /\ readingPipe' = "BCAST"
              /\ nodeIn'.msg.to = OtherId =>
                    UNCHANGED <<listeningToCommandPipe, readingPipe>>)]_vars

\* ----------------------------------------------------------------------
\* C21: of the (up to three) transmissions of one logical command that the
\* history-keeping device reads, every one after the first is dropped as a
\* duplicate, so the command's effect happens at most once; and msgHistory
\* is a ring of MSG_HISTORY_SIZE slots: it holds exactly the last 20 ids
\* recorded, each new id overwriting the oldest one.
RingHoldsLast(hist, at, rec) ==
    /\ at = Len(rec) % MSG_HISTORY_SIZE
    /\ \A k \in 1..Len(rec) :
          k > Len(rec) - MSG_HISTORY_SIZE =>
             hist[((k - 1) % MSG_HISTORY_SIZE) + 1] = rec[k]
    /\ \A i \in 1..MSG_HISTORY_SIZE : i > Len(rec) => hist[i] = 0 - 1

C21_EffectOnceRingOfTwenty ==
    nodeVariant = "hist" =>
       /\ (airNth > 1 => nodeIn.dup)
       /\ RingHoldsLast(msgHistory, historyIndex, nodeRecorded)

C21_Witness ==
    /\ nodeVariant = "hist"
    /\ Len(nodeRecorded) > MSG_HISTORY_SIZE
    /\ msgHistory[1] = nodeRecorded[MSG_HISTORY_SIZE + 1]
    /\ airNth = 3
    /\ nodeIn.dup
    /\ nodeIn.msg.to = MyId

\* ----------------------------------------------------------------------
\* C22: when an operation of the discovery controller that transmitted
\* (an addressed command, the broadcast colour test, a RESET with its
\* discovery round) returns, the radio is in listening mode.
C22_ListeningAfterTransmit ==
    [][((nextMsgId' # nextMsgId \/ regPc = "window") /\ regPc' = "idle")
          => regListening']_vars

\* inside the discovery window the radio listens
C22_ListeningInWindow == regPc = "window" => regListening

\* ----------------------------------------------------------------------
\* C23: every decision on which of two times is earlier gives the result of
\* the signed 32-bit difference, also across the rollover.  For the
\* selection of the earliest green time: when a START command has been
\* handled, no valid directive's green time (as the controller computed it)
\* lies before earliestGreenTime by signed difference.
C23_EarliestGreenBySignedDifference ==
    (cmdKind = "START" /\ txPc = "idle" /\ txVariant # "rfm95") =>
        LET valid == ValidEntries(txVariant, batch)
        IN  \A k \in 1..Len(cmdPkts) :
               (k <= Len(valid) /\ valid[k].nsteps >= 3) =>
                  SGe0(Sub32(Add32(cmdPkts[k].pkt.masterStart,
                                   GreenUs(txVariant, valid[k])),
                             earliestGreenTime))

\* the same when no green time of the batch lies past the rollover
C23_EarliestGreen_NoRollover ==
    (\A k \in 1..Len(cmdPkts) :
        SGe0(cmdPkts[k].pkt.masterStart) /\ SGe0(txNow))
       => C23_EarliestGreenBySignedDifference

\* ----------------------------------------------------------------------
\* C24: a scheduler tick with the cursor inside the list executes the action
\* at the cursor exactly when (now - t) mod 2^32 is below 2^31.  An action
\* timed just after the 32-bit rollover is not executed while now is still
\* just before the rollover, and is executed once now has wrapped past it.
JustBeforeRollover(x) == x[1] >= U16 - 64
JustAfterRollover(x) == x[1] < 64

C24_DueAcrossRollover ==
    [][(rxPc = "tick" /\ rxPc' = "poll" /\ currentStep < totalSteps) =>
          LET t == actions[currentStep + 1].t
              executed == currentStep' = currentStep + 1 /\ rxExec' = actions[currentStep + 1]
              skipped == currentStep' = currentStep /\ rxExec' = NoAction
          IN  /\ executed \/ skipped
              /\ executed <=> Sub32(rxNow, t)[1] < U16 \div 2
              /\ (JustBeforeRollover(rxNow) /\ JustAfterRollover(t)) => skipped
              /\ (JustAfterRollover(rxNow) /\ JustAfterRollover(t) /\ ~ULt(rxNow, t))
                    => executed]_vars

\* an action timed after the rollover has just been executed, the clock
\* having started before the rollover and wrapped since
C24_Witness ==
    /\ rxExec # NoAction
    /\ JustAfterRollover(rxExec.t)
    /\ JustAfterRollover(rxNow)
    /\ elapsed >= 1
    /\ currentStep >= 1

\* ----------------------------------------------------------------------
\* C25: a step offset typed in seconds with up to two decimals, inside the
\* encodable range, is put into the START packet as floor(seconds * 10 + 0.5)
\* deciseconds (nearest, ties up): 1.05 gives 11 and 1.04 gives 10.
C25_RoundHalfUp ==
    (codec.kind = "OFFSET" /\ codec.at = "converted") =>
        /\ codec.back = (codec.pkt.cs + 5) \div 10
        /\ codec.pkt.cs = 105 => codec.back = 11
        /\ codec.pkt.cs = 104 => codec.back = 10

C25_Witness ==
    /\ codec.kind = "OFFSET"
    /\ codec.at = "converted"
    /\ codec.pkt.cs = 105
    /\ codec.back = 11

\* ----------------------------------------------------------------------
\* C26: a scheduler tick executes at most one action: the one at the cursor,
\* only if it is due, and then the cursor moves on by exactly one.  The
\* cursor moves at no other time, except back to the start when a START
\* builds a new list, and the list changes only then: so the actions of a
\* list are executed in list order, none skipped, none twice.
TickRuns ==
    /\ currentStep < totalSteps
    /\ SGe0(Sub32(rxNow, actions[currentStep + 1].t))
    /\ currentStep' = currentStep + 1
    /\ rxExec' = actions[currentStep + 1]
    /\ leds' = LedsAfter(leds, actions[currentStep + 1])

TickWaits ==
    /\ currentStep' = currentStep
    /\ rxExec' = NoAction
    /\ leds' = leds
    /\ audio' = audio

C26_OneActionPerTickInOrder ==
    [][IF rxPc = "tick" /\ rxPc' = "poll"
       THEN (TickRuns \/ TickWaits) /\ actions' = actions /\ totalSteps' = totalSteps
       ELSE \/ currentStep' = currentStep /\ actions' = actions /\ totalSteps' = totalSteps
            \/ currentStep' = 0 /\ handled'.kind = "START"]_vars

\* a list of at least six actions has been executed to its end
C26_Witness ==
    /\ totalSteps >= 6
    /\ currentStep = totalSteps
    /\ rxExec = actions[totalSteps]
    /\ rxExec.type = ACT_LED_GREEN

\* ----------------------------------------------------------------------
\* C27: for every step offset of the wire range, the trigger time of the
\* step's action is localTargetStart + offset * 100000 microseconds, and the
\* scheduler does not execute the action before that many microseconds have
\* gone by since the local target start.
StepOfType(ty) ==
    IF ty = ACT_LED_RED THEN 1
    ELSE IF ty = ACT_LED_ORANGE THEN 2
    ELSE IF ty = ACT_LED_GREEN THEN 3
    ELSE IF ty = ACT_ALL_OFF THEN 4
    ELSE 0

\* whole deciseconds from base to now (a run lasts far less than 2^31
\* microseconds), -1 if now is before base
ElapsedDs(now, base) ==
    LET d == Sub32(now, base)
    IN  IF SGe0(d) THEN (d[1] * U16 + d[2]) \div 100000 ELSE 0 - 1

ExecutedAtOffset(ds) ==
    /\ rxExec'.t = Add32(built.base, ds_to_us(ds))
    /\ ElapsedDs(rxNow, built.base) >= ds

C27_TriggerAtOffset ==
    [][(rxPc = "tick" /\ currentStep' = currentStep + 1
          /\ StepOfType(rxExec'.type) > 0)
          => ExecutedAtOffset(built.pkt.t_ds[StepOfType(rxExec'.type)])]_vars

\* the same for the offsets below 2^31 microseconds
C27_Trigger_WithinHorizon ==
    [][(rxPc = "tick" /\ currentStep' = currentStep + 1
          /\ StepOfType(rxExec'.type) > 0
          /\ \A k \in 1..4 : built.pkt.t_ds[k] < 21475)
          => ExecutedAtOffset(built.pkt.t_ds[StepOfType(rxExec'.type)])]_vars

\* ----------------------------------------------------------------------
\* C28: in a built list no PlayAudio action has a time earlier than the
\* local target start, or later than the time of the SetLed action of its
\* step (times taken as distances from the local target start).
StepOfTrack(a) == CHOOSE k \in 1..4 : TRACK_FOR_STEP[k] = a

PlayWithinLead(list, base) ==
    \A i \in 1..Len(list) :
       list[i].type = ACT_PLAY =>
          /\ SGe0(Sub32(list[i].t, base))
          /\ \A j \in 1..Len(list) :
                list[j].type = LedType(StepOfTrack(list[i].arg) - 1) =>
                   ~ULt(Sub32(list[j].t, base), Sub32(list[i].t, base))

C28_PlayClampedToStart ==
    (codec.kind = "LIST" /\ codec.at = "built") =>
        PlayWithinLead(codec.back, codec.pkt.base)

\* the same for the handlers of the binary START packet
C28_PlayClamped_Binary ==
    (codec.kind = "LIST" /\ codec.at = "built" /\ codec.pkt.variant = "binary") =>
        /\ PlayWithinLead(codec.back, codec.pkt.base)
        /\ Len(codec.back) >= 6

\* and for every list a device of the binary kind has built
C28_PlayClamped_Devices == PlayWithinLead(actions, built.base)

\* ----------------------------------------------------------------------
\* C29: the self-contained device (rfm95) that receives a START at local
\* time L sets its local target start to (L + masterStart - currentClock)
\* mod 2^32: the distance from L to the target start is the controller's
\* distance from currentClock to masterStart, whatever the two clocks read
\* and on whichever side of the rollover they lie; no stored offset enters.
C29_SelfContainedTargetStart ==
    (rxVariant = "rfm95" /\ handled.kind = "START" /\ handled.forMe) =>
        /\ built.pkt = handled.pkt
        /\ Sub32(built.base, rxNow)
              = Sub32(handled.pkt.masterStart, handled.pkt.currentClock)
        /\ Sub32(built.base, rxNow) = StartLeadUs
        /\ timeOffset = <<0, 0>>

\* a START whose currentClock lies before the rollover of the controller's
\* clock and whose masterStart lies after it
C29_Witness ==
    /\ rxVariant = "rfm95"
    /\ handled.kind = "START"
    /\ handled.forMe
    /\ JustBeforeRollover(handled.pkt.currentClock)
    /\ JustAfterRollover(handled.pkt.masterStart)
    /\ JustAfterRollover(built.base)
    /\ totalSteps >= 6

\* ----------------------------------------------------------------------
\* C30: in the explicit-SYNC device the offset is (local clock at receipt of
\* the last SYNC - the clock value that SYNC carried) mod 2^32: a well-formed
\* SYNC sets it so, every message that is not a well-formed SYNC leaves it
\* unchanged, and a START that is processed is scheduled at masterStart +
\* offset.
WellFormedSync(f) ==
    /\ Len(f) >= 7 /\ SubSeq(f, 1, 5) = StrSYNC
    /\ \A i \in 6..(Len(f) - 1) : IsDigit(f[i])
    /\ f[Len(f)] = 0

OffsetFollowsSync ==
    /\ (rxFrame' # <<>> /\ rxPc = "poll" /\ WellFormedSync(rxFrame'))
          => /\ timeOffset' \in {SkewUs, Sub32(<<0, 0>>, AheadUs)}
             /\ rxFrame' = SyncText(Sub32(rxNow, timeOffset'))
    /\ (handled'.kind = "START" /\ rxPc = "poll" /\ currentStep' = 0 /\ built' # built)
          => built'.base = Add32(handled'.pkt.masterStart, timeOffset)

C30_OffsetFromLastSync ==
    [][/\ OffsetFollowsSync
       /\ ~(rxFrame' # <<>> /\ rxPc = "poll" /\ WellFormedSync(rxFrame'))
             => timeOffset' = timeOffset]_vars

\* the same, leaving aside the SYNC messages without a number
C30_Offset_WellFormedSyncs ==
    [][/\ OffsetFollowsSync
       /\ ~(rxFrame' # <<>> /\ rxPc = "poll" /\ SubSeq(rxFrame', 1, 5) = StrSYNC)
             => timeOffset' = timeOffset]_vars


\* ======================================================================
\*                  properties of the device main loop
\* ======================================================================
\* a loop pass starts at the receive part; the pass of the nrf24 device
\* drains frame after frame before it goes on
PassGoesOn ==
    \/ rxPc' = "tick"
    \/ rxVariant = "nrf24" /\ rxPc' = "poll" /\ handled'.kind # "none"

\* C31: every pass of the device loop runs exactly one scheduler tick,
\* whatever it received: from the receive part the pass goes on to the tick
\* (after a too-short frame or a frame for another station as well), and the
\* tick is followed by the receive part of the next pass.
C31_EveryPassTicks ==
    [][/\ rxPc = "poll" => PassGoesOn
       /\ rxPc = "tick" => rxPc' = "poll"]_vars

\* the same for the passes whose frame is long enough and names this station
C31_Ticks_LongAndAddressed ==
    [][/\ (rxPc = "poll" /\ handled'.kind \notin {"short", "notmine"}) => PassGoesOn
       /\ rxPc = "tick" => rxPc' = "poll"]_vars

\* C32: while no further START is processed and the loop keeps running with
\* the clock advancing, the cursor never decreases, it reaches the end of the
\* list, and from then on the ticks execute nothing.
C32_ListRunsToCompletion ==
    /\ [][handled'.kind # "START" => currentStep' >= currentStep]_vars
    /\ <>[](handled.kind # "START")
          => <>[](currentStep = totalSteps /\ rxExec = NoAction)

\* a list of seven actions has run to its end and a later tick found nothing
C32_Witness ==
    /\ totalSteps = 7
    /\ currentStep = totalSteps
    /\ rxExec = NoAction
    /\ rxPc = "poll"
    /\ leds = AllOff
    /\ built.pkt.steps = 4

\* C33: whenever the device has produced a READY acknowledgment for a START,
\* its action list and schedule volume are the ones derived from that
\* START's step offsets and volume.
C33_AckedStartIsScheduled ==
    (handled.kind = "START" /\ rxAck = handled.pkt.seq) =>
        /\ scheduleVolume = handled.pkt.volume
        /\ actions = BuildActions(handled.pkt, built.base)
        /\ totalSteps = Len(actions)

\* the same for the STARTs that differ from the last processed one in seq or
\* masterStart, and for the repetitions of the very same packet
C33_Acked_NewKeyOrSamePacket ==
    (handled.kind = "START" /\ rxAck = handled.pkt.seq
         /\ (~handled.dup \/ handled.pkt = fresh)) =>
        /\ scheduleVolume = handled.pkt.volume
        /\ actions = BuildActions(handled.pkt, built.base)
        /\ totalSteps = Len(actions)

\* C34: in the self-contained variant, with the two clocks running at the
\* same rate (the device's SkewUs ahead) and no latency, the controller-clock
\* instant of the device's local target start is the packet's masterStart,
\* whichever attempt of sendReliable delivered the START.
C34_StartInstantIsMasterStart ==
    (handled.kind = "START" /\ handled.forMe) =>
        Sub32(built.base, SkewUs) = handled.pkt.masterStart

\* the same for a START delivered at the instant it was built
C34_StartInstant_FirstAttempt ==
    (handled.kind = "START" /\ handled.forMe
         /\ handled.pkt.currentClock = Sub32(rxNow, SkewUs)) =>
        Sub32(built.base, SkewUs) = handled.pkt.masterStart

\* ======================================================================
\*              properties of the controller's START batch
\* ======================================================================
\* packet i of the running batch went on the air for the first time (the
\* clock read when it was built) before the batch's masterStart
SentBeforeStart(i) == SLt0(Sub32(cmdPkts[i].at, cmdPkts[i].pkt.masterStart))

\* C35: where masterStart is computed once per batch, every START packet of
\* the batch is first transmitted before the controller clock reaches that
\* masterStart, however many entries came before it and however many of them
\* used all their attempts.
C35_FirstSendBeforeMasterStart ==
    txVariant # "rfm95" => \A i \in 1..Len(cmdPkts) : SentBeforeStart(i)

\* the same for the first three packets of a batch, and for the controllers
\* that poll the READY payload instead of waiting for an acknowledgment
C35_FirstSend_UpToThreeOrPolled ==
    txVariant # "rfm95" =>
        \A i \in 1..Len(cmdPkts) : (i <= 3 \/ txVariant # "poll") => SentBeforeStart(i)

\* ======================================================================
\*             properties of discovery, registry and devices
\* ======================================================================
Listed(id) == Found(discoveredIDs, deviceCount, id)

\* C36: after a RESET addressed to one device and the discovery round that
\* follows it, every device that was in the registry before and still
\* listens on the command channel is still in the registry.
C36_RegisteredStayListed ==
    (regPc = "idle" /\ regReset.to \in DeviceIds) =>
        \A id \in regReset.listed \cap onCommandPipe : Listed(id)

\* after a RESET and its discovery round, every device that was in the
\* registry before and replied in the round is in the registry
C36_RepliedStayListed ==
    (regPc = "idle" /\ regReset # NoReset) =>
        \A id \in regReset.listed :
            (\E i \in 1..Len(firstArrivals) : firstArrivals[i] = id) => Listed(id)

\* C37: with no packet loss every Unregistered device that receives the WHO
\* query is in the registry when the response window has closed.
C37_AskedDevicesListed ==
    (regPc = "idle" /\ regReset # NoReset) =>
        \A id \in WhoFleet \cap regReset.asked : Listed(id)

\* the same for the devices whose reply delay ends inside the window
C37_Asked_InTime ==
    (regPc = "idle" /\ regReset # NoReset) =>
        \A id \in WhoFleet \cap regReset.asked : InTime(id) => Listed(id)

\* C38: the history-keeping device discards as a duplicate only a physical
\* retransmission of a logical message it has already recorded, whatever
\* messages it failed to hear in between: a message read for the first time
\* is never dropped.
C38_OnlyRetransmissionsDropped ==
    (nodeVariant = "hist" /\ nodeIn.dup) => airNth > 1

\* what is dropped carries an id that is among the last MSG_HISTORY_SIZE
\* recorded ones
C38_Dropped_IdInHistory ==
    (nodeVariant = "hist" /\ nodeIn.dup) =>
        \E k \in 1..Len(nodeRecorded) :
           /\ k > Len(nodeRecorded) - MSG_HISTORY_SIZE
           /\ nodeRecorded[k] = nodeIn.msg.id

\* a well-formed START or DISCOVER whose targetId, as the device reads it, is
\* not the device's own: pkt.targetId in receiver_rfm95.ino, msg->targetId
\* (the first byte) in transmitter.ino
ForAnother(v, f) ==
    IF v = "rfm95"
    THEN \/ /\ ByteAt(f, 1) = MSG_START_V1 /\ Len(f) = START_LEN
            /\ DecodeStart(f).targetId # DEVICE_ID_RFM95
         \/ /\ ByteAt(f, 1) = MSG_DISCOVER_V1 /\ Len(f) = DISCOVER_LEN
            /\ DecodeDiscover(f).targetId # DEVICE_ID_RFM95
    ELSE /\ v = "lora"
         /\ ByteAt(f, 5) = MSG_START_V1 /\ Len(f) = START_LEN
         /\ ByteAt(f, 1) # DEVICE_ID_LORA

\* C39: a DISCOVER or START packet whose targetId is not this device's id
\* changes nothing on the device (action list, cursor, schedule volume,
\* remembered START, outputs) and the device sends no acknowledgment for it.
C39_OthersPacketChangesNothing ==
    [][(rxPc = "poll" /\ Len(rxFrame') > 0 /\ ForAnother(rxVariant, rxFrame')) =>
          /\ UNCHANGED <<actions, totalSteps, currentStep, scheduleVolume>>
          /\ UNCHANGED <<lastSeq, lastMasterStart, fresh, leds, audio>>
          /\ rxAck' = 0 - 1]_vars

\* a device that is partway through its list has taken in a START for
\* another station
C39_Witness ==
    /\ rxVariant = "rfm95"
    /\ rxPc = "tick"
    /\ handled.kind = "START" /\ ~handled.forMe
    /\ ForAnother(rxVariant, rxFrame)
    /\ totalSteps > 0 /\ currentStep > 0 /\ currentStep < totalSteps
    /\ rxAck = 0 - 1

\* the actions a START with this step count byte asks for: a sound and a
\* light for each of the first three steps, the all-off for a fourth
ActionsAsked(n) == 2 * (IF n < 3 THEN n ELSE 3) + (IF n >= 4 THEN 1 ELSE 0)

\* C40: in every reachable device state, whatever step count byte came in,
\* 0 <= currentStep <= totalSteps <= 7 <= MAX_ACTIONS; the list holds every
\* action the last START processed asked for (addAction dropped none) and the
\* action a tick executed lies in the filled part of the list.
C40_CursorAndLengthInBounds ==
    /\ 0 <= currentStep /\ currentStep <= totalSteps
    /\ totalSteps <= 7 /\ 7 <= MAX_ACTIONS
    /\ totalSteps = Len(actions)
    /\ built.pkt # NoPkt => totalSteps = ActionsAsked(built.pkt.steps)
    /\ rxExec # NoAction =>
          currentStep >= 1 /\ actions[currentStep] = rxExec

\* a START with step count 255 left seven actions and the device has
\* executed the last of them
C40_Witness ==
    /\ built.pkt.steps = 255
    /\ totalSteps = 7
    /\ currentStep = totalSteps
    /\ rxExec = actions[7]

============================================================================
